---- MODULE Spec2Model ----
(***************************************************************************)
(* Model of the map-style acquisition code of the Barikoi React Native     *)
(* example: fetchBarikoiMapStyle and the useBarikoiMapStyle hook           *)
(* (utils/mapUtils.ts, reproduced in docs/DRAGGABLE_MARKER_SCREEN.md) and  *)
(* the screens that render the hook's result; and of the geometry          *)
(* utilities isWithinBangladeshBounds, calculateDistance and               *)
(* createCirclePolygon / createCirclePoints; and of the screens            *)
(* DraggableMarkerScreen, CurrentLocationScreen, HomeScreen and the        *)
(* screens that fetch the style inline.                                    *)
(*                                                                         *)
(* JavaScript values are records tagged by their type in field t.  A       *)
(* string is the sequence of its pieces, so the empty string is <<>>.      *)
(***************************************************************************)
EXTENDS Integers, Sequences, FiniteSets

VARIABLES
    phase,      \* per consumer: "idle" (not rendered yet), "mounted", "unmounted"
    apiKey,     \* per consumer: the apiKey prop of the current render
    hook,       \* per consumer: the useState cells styleJson, loading, error
    inflight,   \* loadStyle calls suspended at `await fetchBarikoiMapStyle`
    issued,     \* per consumer: keys it has requested so far (history)
    requests,   \* per consumer: number of loadStyle calls it has made
    geo,        \* the geometry utility call being evaluated: arguments and result
    marker,     \* DraggableMarkerScreen: its state cells, refs and camera commands
    inline,     \* a screen that fetches the style inline: styleJson and its fetch
    location,   \* CurrentLocationScreen: its state cells, ref and pending calls
    home        \* HomeScreen: drawer state and the Animated.Value of the render

vars == <<phase, apiKey, hook, inflight, issued, requests, geo,
          marker, inline, location, home>>

-----------------------------------------------------------------------------
(* Bounds *)

MaxRequests == 3

\* explicit segment counts passed to the circle generators: -1 .. MaxSegments
MaxSegments == 5

\* camera commands a DraggableMarkerScreen sends in one run
MaxCommands == 3

\* frames of one drawer animation
DrawerFrames == 2

Consumers == {1, 2}

Keys == {"keyA", "keyB"}

-----------------------------------------------------------------------------
(* JavaScript values *)

JsNull == [t |-> "null"]

JsUndefined == [t |-> "undefined"]

JsStr(pieces) == [t |-> "str", s |-> pieces]

JsNum(n) == [t |-> "num", n |-> n]

JsBool(b) == [t |-> "bool", b |-> b]

JsObj(fields) == [t |-> "obj", f |-> fields]

JsError(name, message) == [t |-> "error", name |-> name, message |-> JsStr(message)]

\* ToBoolean: what `if (v)` tests
Truthy(v) ==
    CASE v.t = "null"      -> FALSE
      [] v.t = "undefined" -> FALSE
      [] v.t = "str"       -> Len(v.s) > 0
      [] v.t = "num"       -> v.n # 0
      [] v.t = "bool"      -> v.b
      [] OTHER             -> TRUE

\* `v instanceof Error`
InstanceOfError(v) == v.t = "error"

DigitChar(d) ==
    CASE d = 0 -> "0" [] d = 1 -> "1" [] d = 2 -> "2" [] d = 3 -> "3"
      [] d = 4 -> "4" [] d = 5 -> "5" [] d = 6 -> "6" [] d = 7 -> "7"
      [] d = 8 -> "8" [] d = 9 -> "9"

\* Number-to-string conversion of a template literal, for naturals
RECURSIVE ToDigits(_)
ToDigits(n) ==
    IF n < 10 THEN <<DigitChar(n)>>
    ELSE Append(ToDigits(n \div 10), DigitChar(n % 10))

\* s contains the pieces of sub as a contiguous run
Contains(s, sub) ==
    \E i \in 0 .. (Len(s) - Len(sub)) :
        \A j \in 1 .. Len(sub) : s[i + j] = sub[j]

-----------------------------------------------------------------------------
(* The remote endpoint: what a request for a key can be answered with *)

Statuses == {200, 401, 500}

SpriteValues ==
    { JsStr(<<"https://map.barikoi.com/sprites/sprite">>),
      JsStr(<<>>), JsNum(0), JsBool(FALSE), JsNull }

\* a style document served for key k; its tile source embeds the key
BaseFields(k) ==
    [version |-> JsNum(8), sources |-> JsStr(<<"tiles?key=", k>>)]

WithSprite(k, sp) ==
    [version |-> JsNum(8), sources |-> JsStr(<<"tiles?key=", k>>), sprite |-> sp]

\* A response body is the JSON value its text encodes, or text that is not JSON
Bodies(k) ==
    { [valid |-> FALSE], [valid |-> TRUE, value |-> JsNull],
      [valid |-> TRUE, value |-> JsObj(BaseFields(k))] }
    \cup { [valid |-> TRUE, value |-> JsObj(WithSprite(k, sp))] : sp \in SpriteValues }

ThrownByFetch ==
    { JsError("TypeError", <<"Network request failed">>),
      JsError("Error", <<>>),
      JsStr(<<"timeout">>) }

Outcomes(k) ==
    { [kind |-> "reject", err |-> e] : e \in ThrownByFetch }
    \cup { [kind |-> "response", status |-> st, body |-> b] :
             st \in Statuses, b \in Bodies(k) }

-----------------------------------------------------------------------------
(* fetchBarikoiMapStyle *)

Resolved(v) == [ok |-> TRUE, value |-> v]

Rejected(e) == [ok |-> FALSE, value |-> e]

\* response.ok
ResponseOkBelow500(status) == status < 500

ResponseOk(status) == status >= 200 /\ status <= 299

\* `HTTP error! status: ${response.status}`
HttpErrorMessage(status) == <<"HTTP error! status: ">> \o ToDigits(status)

\* response.json()
ResponseJson(body) ==
    IF body.valid THEN Resolved(body.value)
    ELSE Rejected(JsError("SyntaxError", <<"JSON Parse error: Unexpected token">>))

\* data.sprite
GetSprite(data) ==
    IF data.t = "obj" /\ "sprite" \in DOMAIN data.f THEN data.f["sprite"]
    ELSE JsUndefined

DeleteSpriteAndSources(data) ==
    JsObj([x \in (DOMAIN data.f) \ {"sprite", "sources"} |-> data.f[x]])

\* delete data.sprite
DeleteSprite(data) ==
    JsObj([x \in (DOMAIN data.f) \ {"sprite"} |-> data.f[x]])

\* if (data.sprite) { delete data.sprite; }  (reading a property of null throws)
RemoveSprite(data) ==
    IF data.t = "null"
    THEN Rejected(JsError("TypeError",
             <<"Cannot read property 'sprite' of null">>))
    ELSE IF Truthy(GetSprite(data)) THEN Resolved(DeleteSprite(data))
    ELSE Resolved(data)

fetchBarikoiMapStyleSwallow(outcome) ==
    IF outcome.kind = "reject" THEN Resolved(JsUndefined)
    ELSE IF ~ResponseOk(outcome.status) THEN Resolved(JsUndefined)
    ELSE LET parsed == ResponseJson(outcome.body)
         IN  IF ~parsed.ok THEN Resolved(JsUndefined) ELSE RemoveSprite(parsed.value)

\* the promise fetchBarikoiMapStyle returns, given how the network answered
fetchBarikoiMapStyle(outcome) ==
    IF outcome.kind = "reject" THEN Rejected(outcome.err)
    ELSE IF ~ResponseOk(outcome.status)
         THEN Rejected(JsError("Error", HttpErrorMessage(outcome.status)))
    ELSE LET parsed == ResponseJson(outcome.body)
         IN  IF ~parsed.ok THEN parsed ELSE RemoveSprite(parsed.value)

-----------------------------------------------------------------------------
(* useBarikoiMapStyle *)

\* useState initial values
InitialHook == [styleJson |-> JsNull, loading |-> TRUE, error |-> JsNull]

\* loadStyle up to its await: setLoading(true); setError(null)
loadStyleBegin(h) == [h EXCEPT !.loading = TRUE, !.error = JsNull]

ErrorTextAlwaysGeneric(err) == JsStr(<<"Failed to load map style">>)

\* err instanceof Error ? err.message : 'Failed to load map style'
ErrorText(err) ==
    IF InstanceOfError(err) THEN err.message
    ELSE JsStr(<<"Failed to load map style">>)

loadStyleSettledNoFinally(h, result) ==
    IF result.ok
    THEN [h EXCEPT !.styleJson = result.value, !.loading = FALSE]
    ELSE [h EXCEPT !.error = ErrorText(result.value)]

\* loadStyle after its await: try / catch / finally
loadStyleSettled(h, result) ==
    IF result.ok
    THEN [h EXCEPT !.styleJson = result.value, !.loading = FALSE]
    ELSE [h EXCEPT !.error = ErrorText(result.value), !.loading = FALSE]

SettersOfFirstConsumer(req) == 1

\* the state cells the setters captured by a loadStyle closure write to
SettersOf(req) == req.owner

-----------------------------------------------------------------------------
(* Screens built on the hook *)

\* if (loading) ...; if (error) ...; return <MapView mapStyle={styleJson}>
Render(h) ==
    IF h.loading THEN [view |-> "loading"]
    ELSE IF Truthy(h.error) THEN [view |-> "error", text |-> h.error]
    ELSE [view |-> "map", mapStyle |-> h.styleJson]

-----------------------------------------------------------------------------
(* Natural numbers of any size: little-endian sequences of 14-bit limbs     *)
(* without leading zero limbs; <<>> is zero. Sums, differences, products,   *)
(* shifts and comparisons are written limb by limb in closed form;          *)
(* quotients and roots iterate a state record.                              *)

LimbBits == 2 * 7

LimbBase == 2 ^ LimbBits

Abs(n) == IF n < 0 THEN -n ELSE n

Limb(a, i) == IF 1 <= i /\ i <= Len(a) THEN a[i] ELSE 0

\* a without its leading zero limbs
BigTrim(a) ==
    SubSeq(a, 1, Cardinality({i \in 1 .. Len(a) : \E j \in i .. Len(a) : a[j] # 0}))

\* for 0 <= n < 2^31
BigFromNat(n) ==
    BigTrim(<<n % LimbBase, (n \div LimbBase) % LimbBase, n \div (LimbBase * LimbBase)>>)

\* the value of a, for a below 2^31
BigToNat(a) == Limb(a, 1) + LimbBase * Limb(a, 2) + LimbBase * LimbBase * Limb(a, 3)

\* the addition of a and b carries into limb k
BigCarry(a, b, k) ==
    \E j \in 1 .. (k - 1) :
        /\ Limb(a, j) + Limb(b, j) >= LimbBase
        /\ \A m \in (j + 1) .. (k - 1) : Limb(a, m) + Limb(b, m) = LimbBase - 1

\* the n low limbs of a + b
BigAddLimbs(a, b, n) ==
    SubSeq([k \in 1 .. n |->
               (Limb(a, k) + Limb(b, k) + (IF BigCarry(a, b, k) THEN 1 ELSE 0))
                   % LimbBase],
           1, n)

\* a + b; a and b may have leading zero limbs
BigAdd(a, b) ==
    CASE a = <<>> -> BigTrim(b)
      [] b = <<>> -> BigTrim(a)
      [] OTHER ->
            BigTrim(BigAddLimbs(a, b, 1 + (IF Len(a) > Len(b) THEN Len(a) ELSE Len(b))))

\* the subtraction of b from a borrows from limb k
BigBorrow(a, b, k) ==
    \E j \in 1 .. (k - 1) :
        /\ a[j] < Limb(b, j)
        /\ \A m \in (j + 1) .. (k - 1) : a[m] = Limb(b, m)

\* a - b for a >= b
BigSub(a, b) ==
    IF b = <<>> THEN a
    ELSE BigTrim(SubSeq([k \in 1 .. Len(a) |->
                            (a[k] - Limb(b, k) - (IF BigBorrow(a, b, k) THEN 1 ELSE 0))
                                % LimbBase],
                        1, Len(a)))

\* a and b differ, and first at limb i from the top
BigCmpAt(a, b, i) == IF a[i] < b[i] THEN -1 ELSE 1

\* -1, 0 or 1 as a is below, equal to or above b
BigCmp(a, b) ==
    CASE Len(a) < Len(b) -> -1
      [] Len(a) > Len(b) -> 1
      [] a = b -> 0
      [] OTHER -> BigCmpAt(a, b, CHOOSE i \in 1 .. Len(a) :
                                    /\ a[i] # b[i]
                                    /\ \A j \in (i + 1) .. Len(a) : a[j] = b[j])

\* a * 2^(14 n)
BigShiftLimbs(a, n) == IF a = <<>> THEN a ELSE [i \in 1 .. n |-> 0] \o a

\* a * k for 0 <= k < 2^14: the low halves of the limb products, and their
\* high halves one limb up
BigMulSmall(a, k) ==
    IF a = <<>> \/ k = 0 THEN <<>>
    ELSE BigAdd(SubSeq([i \in 1 .. Len(a) |-> (a[i] * k) % LimbBase], 1, Len(a)),
                <<0>> \o [i \in 1 .. Len(a) |-> (a[i] * k) \div LimbBase])

\* the sum of the limb products of a and b that weigh 2^(14 (k - 1)), for b
\* of at most four limbs: below 2^30
BigColumn(a, b, k) ==
    Limb(a, k) * Limb(b, 1) + Limb(a, k - 1) * Limb(b, 2)
        + Limb(a, k - 2) * Limb(b, 3) + Limb(a, k - 3) * Limb(b, 4)

\* the columns of a * b, and the sum of their low limbs, of their middle
\* limbs one limb up and of what is above two limbs up
BigMulColumns(c) ==
    BigAdd(BigAdd(SubSeq([k \in 1 .. Len(c) |-> c[k] % LimbBase], 1, Len(c)),
                  <<0>> \o [k \in 1 .. Len(c) |-> (c[k] \div LimbBase) % LimbBase]),
           <<0, 0>> \o [k \in 1 .. Len(c) |-> c[k] \div (LimbBase * LimbBase)])

\* a * b for b of at most four limbs
BigMul(a, b) ==
    IF a = <<>> \/ b = <<>> THEN <<>>
    ELSE BigMulColumns(SubSeq([k \in 1 .. (Len(a) + 3) |-> BigColumn(a, b, k)],
                              1, Len(a) + 3))

\* a * 2^s for 0 <= s < 14
BigShlBits(a, s) ==
    IF s = 0 THEN a
    ELSE BigTrim(SubSeq([i \in 1 .. (Len(a) + 1) |->
                            ((Limb(a, i) * 2 ^ s) % LimbBase)
                                + (Limb(a, i - 1) \div 2 ^ (LimbBits - s))],
                        1, Len(a) + 1))

\* a * 2^n
BigShl(a, n) == BigShiftLimbs(BigShlBits(a, n % LimbBits), n \div LimbBits)

\* a \div 2^(14 q + s) for 0 <= s < 14
BigShrBits(a, q, s) ==
    IF Len(a) <= q THEN <<>>
    ELSE BigTrim(SubSeq([i \in 1 .. (Len(a) - q) |->
                            (a[i + q] \div 2 ^ s)
                                + (Limb(a, i + q + 1) % 2 ^ s) * 2 ^ (LimbBits - s)],
                        1, Len(a) - q))

\* a \div 2^n
BigShr(a, n) == BigShrBits(a, n \div LimbBits, n % LimbBits)

\* bit i of a (bit 0 is the lowest)
BigBit(a, i) == (Limb(a, i \div LimbBits + 1) \div 2 ^ (i % LimbBits)) % 2

\* some bit of a below bit i is set
BigAnyBitBelow(a, i) ==
    \/ \E j \in 1 .. (i \div LimbBits) : Limb(a, j) # 0
    \/ Limb(a, i \div LimbBits + 1) % 2 ^ (i % LimbBits) # 0

\* the number of bits of n < 2^31
NatBitLen(n) == Cardinality({k \in 0 .. 30 : 2 ^ k <= n})

BigBitLen(a) ==
    IF a = <<>> THEN 0 ELSE (Len(a) - 1) * LimbBits + NatBitLen(a[Len(a)])

\* quotient and remainder of a by k, for 0 < k < 2^14: the limbs i .. 1 of a
\* are still to be brought down
RECURSIVE BigDivSmallFrom(_, _, _)
BigDivSmallFrom(a, k, st) ==
    IF st.i = 0 THEN [q |-> BigTrim(st.q), r |-> st.r]
    ELSE BigDivSmallFrom(a, k,
            [i |-> st.i - 1,
             q |-> <<(st.r * LimbBase + a[st.i]) \div k>> \o st.q,
             r |-> (st.r * LimbBase + a[st.i]) % k])

BigDivSmall(a, k) == BigDivSmallFrom(a, k, [i |-> Len(a), q |-> <<>>, r |-> 0])

\* the estimate of a quotient digit from the two top limbs of cur, for b of
\* n limbs with the top limb >= 2^13: the digit, or up to 2 more
BigEstimate(cur, b, n) ==
    LET top == Limb(cur, n + 1) * LimbBase + Limb(cur, n)
    IN  IF top \div b[n] >= LimbBase THEN LimbBase - 1 ELSE top \div b[n]

\* the quotient digit: the largest d <= est with b * d <= cur
BigQuotientDigit(cur, b, est) ==
    CASE BigCmp(BigMulSmall(b, est), cur) <= 0 -> est
      [] BigCmp(BigMulSmall(b, est - 1), cur) <= 0 -> est - 1
      [] OTHER -> est - 2

\* the state after the quotient digit d
BigDivDigit(b, st, cur, d) ==
    [i |-> st.i - 1, q |-> <<d>> \o st.q, rem |-> BigSub(cur, BigMulSmall(b, d))]

\* cur is the remainder with the next limb brought down
BigDivBring(b, st, cur) ==
    IF BigCmp(cur, b) < 0 THEN [i |-> st.i - 1, q |-> <<0>> \o st.q, rem |-> cur]
    ELSE BigDivDigit(b, st, cur, BigQuotientDigit(cur, b, BigEstimate(cur, b, Len(b))))

\* one step of the long division by b: limb st.i of a is brought down to the
\* remainder st.rem < b, and the next quotient digit found
BigDivStep(a, b, st) == BigDivBring(b, st, BigTrim(<<a[st.i]>> \o st.rem))

RECURSIVE BigDivFrom(_, _, _)
BigDivFrom(a, b, st) ==
    IF st.i = 0 THEN [q |-> BigTrim(st.q), exact |-> st.rem = <<>>]
    ELSE BigDivFrom(a, b, BigDivStep(a, b, st))

\* the division by b whose top limb is >= 2^13: the top Len(b) - 1 limbs of a
\* are below b, the quotient digits start under them
BigDivNormal(a, b) ==
    IF Len(a) < Len(b) THEN [q |-> <<>>, exact |-> a = <<>>]
    ELSE BigDivFrom(a, b, [i |-> Len(a) - Len(b) + 1,
                           rem |-> SubSeq(a, Len(a) - Len(b) + 2, Len(a)),
                           q |-> <<>>])

\* a \div b and whether the division is exact, for b > 0
BigDiv(a, b) ==
    BigDivNormal(BigShlBits(a, LimbBits - NatBitLen(b[Len(b)])),
                 BigShlBits(b, LimbBits - NatBitLen(b[Len(b)])))

\* the largest r with r * r <= n for a natural n < 2^30, by Newton's
\* iteration from x > sqrt(n)
RECURSIVE NatSqrtFrom(_, _)
NatSqrtFrom(n, x) ==
    IF (x + n \div x) \div 2 < x THEN NatSqrtFrom(n, (x + n \div x) \div 2) ELSE x

NatSqrt(n) == IF n = 0 THEN 0 ELSE NatSqrtFrom(n, 2 ^ 15)

\* x and the next value of Newton's iteration for the root of n
BigSqrtStep(n, x) == [x |-> x, y |-> BigShr(BigAdd(x, BigDiv(n, x).q), 1)]

\* the same for a natural of any size
RECURSIVE BigSqrtFrom(_, _)
BigSqrtFrom(n, st) ==
    IF BigCmp(st.y, st.x) < 0 THEN BigSqrtFrom(n, BigSqrtStep(n, st.y)) ELSE st.x

\* the first x: the root of the top 29 or 30 bits of n, rounded up
BigSqrtStart(n, shift) ==
    BigShl(BigFromNat(NatSqrt(BigToNat(BigShr(n, shift))) + 1), shift \div 2)

BigSqrt(n) ==
    IF BigBitLen(n) <= 30 THEN BigFromNat(NatSqrt(BigToNat(n)))
    ELSE BigSqrtFrom(n, BigSqrtStep(n,
            BigSqrtStart(n, BigBitLen(n) - 30 + (BigBitLen(n) % 2))))

\* 10^n for n <= 9
BigPow10(n) == BigFromNat(10 ^ n)

\* the decimal digits of a, most significant first: st.q is still to be
\* converted
RECURSIVE BigDigitsFrom(_)
BigDigitsFrom(st) ==
    IF st.q = <<>> THEN st.ds
    ELSE BigDigitsFrom([q |-> BigDivSmall(st.q, 10).q,
                        ds |-> <<BigDivSmall(st.q, 10).r>> \o st.ds])

BigDigits(a) == IF a = <<>> THEN <<0>> ELSE BigDigitsFrom([q |-> a, ds |-> <<>>])
-----------------------------------------------------------------------------
(* IEEE 754 double precision numbers: (-1)^neg * m * 2^e with               *)
(* 2^52 <= m < 2^53, or m = 0 (and e = 0) for the two zeros; every result   *)
(* is rounded to nearest, ties to even. The exponent is not bounded: no     *)
(* value of the model comes near the overflow or subnormal range.           *)

MantissaBits == 52 + 1

ExponentBias == 2 ^ 10 - 1

Fin(neg, m, e) == [k |-> "fin", neg |-> neg, m |-> m, e |-> e]

NumZero == Fin(FALSE, <<>>, 0)

NumNaN == [k |-> "nan"]

NumInf(neg) == [k |-> "inf", neg |-> neg]

IsFinite(a) == a.k = "fin"

IsZero(a) == a.k = "fin" /\ a.m = <<>>

\* the sign bit is set
IsNegative(a) == a.k # "nan" /\ a.neg

\* the mantissa r, rounded up, may have reached 2^53
Carried(neg, r, e) ==
    IF BigBitLen(r) > MantissaBits THEN Fin(neg, BigShr(r, 1), e + 1)
    ELSE Fin(neg, r, e)

\* m loses its sh low bits: to nearest, ties to even
RoundsUp(m, sticky, sh) ==
    /\ BigBit(m, sh - 1) = 1
    /\ sticky \/ BigAnyBitBelow(m, sh - 1) \/ BigBit(m, sh) = 1

\* m has sh bits more than a mantissa
RoundTo(neg, m, e, sticky, sh) ==
    CASE m = <<>> -> Fin(neg, <<>>, 0)
      [] sh <= 0 -> Fin(neg, BigShl(m, -sh), e + sh)
      [] RoundsUp(m, sticky, sh) -> Carried(neg, BigAdd(BigShr(m, sh), <<1>>), e + sh)
      [] OTHER -> Fin(neg, BigShr(m, sh), e + sh)

\* m * 2^e (and a set sticky flag: a little more) rounded to a double
Round(neg, m, e, sticky) == RoundTo(neg, m, e, sticky, BigBitLen(m) - MantissaBits)

\* the number an integer converts to
FromInteger(n) == Round(n < 0, BigFromNat(Abs(n)), 0, FALSE)

\* m / d * 2^-s rounded, from the quotient q of m * 2^s by d
RoundQuotient(neg, q, e) == Round(neg, q.q, e, ~q.exact)

\* the value of a numeric literal with digits m and decimal exponent
\* -9 <= e <= 0
FromDecimal(m, e) ==
    RoundQuotient(m < 0,
                  BigDiv(BigShl(BigFromNat(Abs(m)), 31 + MantissaBits + 3),
                         BigFromNat(10 ^ (-e))),
                  -(31 + MantissaBits + 3))

\* the double whose bits are the 31 low bits of the high word hi and the two
\* 16-bit halves lo1, lo0 of the low word, with the given sign: the mantissa
\* 2^52 + (hi mod 2^20) * 2^32 + lo1 * 2^16 + lo0 cut into four limbs
Words(neg, hi, lo1, lo0) ==
    IF hi = 0 /\ lo1 = 0 /\ lo0 = 0 THEN Fin(neg, <<>>, 0)
    ELSE Fin(neg,
             << lo0 % 2 ^ 14,
                (lo0 \div 2 ^ 14) + (lo1 % 2 ^ 12) * 2 ^ 2,
                (lo1 \div 2 ^ 12) + (hi % 2 ^ 10) * 2 ^ 4,
                2 ^ 10 + ((hi % 2 ^ 20) \div 2 ^ 10) >>,
             (hi \div 2 ^ 20) - ExponentBias - 52)

NumNeg(a) ==
    IF a.k = "nan" THEN a ELSE [a EXCEPT !.neg = ~a.neg]

NumAbs(a) ==
    IF a.k = "nan" THEN a ELSE [a EXCEPT !.neg = FALSE]

\* x * 2^e - y * 2^e with the sign xneg, or the reverse with the sign yneg
Difference(xneg, x, yneg, y, e, cmp) ==
    CASE cmp = 0 -> NumZero
      [] cmp > 0 -> Round(xneg, BigSub(x, y), e, FALSE)
      [] OTHER   -> Round(yneg, BigSub(y, x), e, FALSE)

\* x * 2^e and y * 2^e with their signs
AddAligned(xneg, x, yneg, y, e) ==
    IF xneg = yneg THEN Round(xneg, BigAdd(x, y), e, FALSE)
    ELSE Difference(xneg, x, yneg, y, e, BigCmp(x, y))

\* the sum of two finite non-zero numbers, a.e >= b.e
AddOrdered(a, b) ==
    IF a.e - b.e > MantissaBits + 3 THEN a
    ELSE AddAligned(a.neg, BigShl(a.m, a.e - b.e), b.neg, b.m, b.e)

Sum(a, b) ==
    CASE a.k = "nan" \/ b.k = "nan" -> NumNaN
      [] a.k = "inf" /\ b.k = "inf" -> IF a.neg = b.neg THEN a ELSE NumNaN
      [] a.k = "inf" -> a
      [] b.k = "inf" -> b
      [] a.m = <<>> /\ b.m = <<>> -> Fin(a.neg /\ b.neg, <<>>, 0)
      [] a.m = <<>> -> b
      [] b.m = <<>> -> a
      [] OTHER -> AddOrdered(IF a.e >= b.e THEN a ELSE b, IF a.e >= b.e THEN b ELSE a)

Product(a, b) ==
    CASE a.k = "nan" \/ b.k = "nan" -> NumNaN
      [] a.k = "inf" \/ b.k = "inf" ->
            IF IsZero(a) \/ IsZero(b) THEN NumNaN ELSE NumInf(a.neg # b.neg)
      [] OTHER -> Round(a.neg # b.neg, BigMul(a.m, b.m), a.e + b.e, FALSE)

Quotient(a, b) ==
    CASE a.k = "nan" \/ b.k = "nan" -> NumNaN
      [] a.k = "inf" -> IF b.k = "inf" THEN NumNaN ELSE NumInf(a.neg # b.neg)
      [] b.k = "inf" -> Fin(a.neg # b.neg, <<>>, 0)
      [] b.m = <<>> -> IF a.m = <<>> THEN NumNaN ELSE NumInf(a.neg # b.neg)
      [] a.m = <<>> -> Fin(a.neg # b.neg, <<>>, 0)
      [] OTHER -> RoundQuotient(a.neg # b.neg,
                                BigDiv(BigShl(a.m, MantissaBits + 3), b.m),
                                a.e - (MantissaBits + 3) - b.e)

\* the root r of n = m * 2^s, the exponent e - s being even
RoundRoot(n, r, e) == Round(FALSE, r, e \div 2, BigMul(r, r) # n)

RootOfShifted(n, e) == RoundRoot(n, BigSqrt(n), e)

SquareRoot(a) ==
    CASE a.k = "nan" -> NumNaN
      [] a.k = "inf" -> IF a.neg THEN NumNaN ELSE a
      [] a.m = <<>> -> a
      [] a.neg -> NumNaN
      [] OTHER -> RootOfShifted(BigShl(a.m, MantissaBits + 3 + (a.e % 2)),
                                a.e - (MantissaBits + 3 + (a.e % 2)))

\* -1, 0 or 1 as |a| is below, equal to or above |b|, for finite a and b
CmpMagnitude(a, b) ==
    IF a.m = <<>> \/ b.m = <<>>
    THEN (IF a.m = b.m THEN 0 ELSE IF a.m = <<>> THEN -1 ELSE 1)
    ELSE IF a.e # b.e THEN (IF a.e < b.e THEN -1 ELSE 1)
    ELSE BigCmp(a.m, b.m)

\* a < b; every comparison with NaN is false, and -0 equals +0
NumLt(a, b) ==
    /\ a.k # "nan" /\ b.k # "nan"
    /\ IF a.k = "inf" THEN a.neg /\ ~(b.k = "inf" /\ b.neg)
       ELSE IF b.k = "inf" THEN ~b.neg
       ELSE IF a.m = <<>> /\ b.m = <<>> THEN FALSE
       ELSE IF a.m = <<>> THEN ~b.neg
       ELSE IF b.m = <<>> THEN a.neg
       ELSE IF a.neg # b.neg THEN a.neg
       ELSE IF a.neg THEN CmpMagnitude(a, b) > 0
       ELSE CmpMagnitude(a, b) < 0

\* a === b for numbers
NumEq(a, b) ==
    /\ a.k # "nan" /\ b.k # "nan"
    /\ a = b \/ (IsZero(a) /\ IsZero(b))

NumLe(a, b) == NumLt(a, b) \/ NumEq(a, b)

\* the exponent field of a
BiasedExponent(a) == IF a.m = <<>> THEN 0 ELSE a.e + 52 + ExponentBias

\* the high word of a without its sign bit (ix = hx & 0x7fffffff): the
\* exponent field and the 20 bits under the top bit of the mantissa
HighWord(a) ==
    CASE a.k = "nan" -> \H7ff80000
      [] a.k = "inf" -> \H7ff00000
      [] a.m = <<>> -> 0
      [] OTHER -> (BiasedExponent(a) - 1) * 2 ^ 20 + a.m[4] * 2 ^ 10 + (a.m[3] \div 2 ^ 4)

\* (int) a, for 0 <= a < 2^31
TruncToInt(a) ==
    IF a.m = <<>> \/ a.e <= -MantissaBits THEN 0
    ELSE IF a.e >= 0 THEN BigToNat(BigShl(a.m, a.e))
    ELSE BigToNat(BigShr(a.m, -a.e))
-----------------------------------------------------------------------------
(* The operations of JavaScript numbers. Each one is reached through the    *)
(* single recursive operator Num, so that an operation that uses other      *)
(* operations (Math.sin multiplies and adds) refers back to Num.            *)

RECURSIVE Num(_, _, _)

\* a + b
NumAdd(a, b) == Num("add", a, b)

\* a - b
NumSub(a, b) == Num("sub", a, b)

\* a * b
NumMul(a, b) == Num("mul", a, b)

\* a / b
NumDiv(a, b) == Num("div", a, b)

MathSqrt(a) == Num("sqrt", a, a)

MathSin(x) == Num("sin", x, x)

MathCos(x) == Num("cos", x, x)

MathAtan2(y, x) == Num("atan2", y, x)

\* the number an integer converts to
FromInt(n) == FromInteger(n)

\* a numeric literal with digits m and decimal exponent e
Lit(m, e) == FromDecimal(m, e)

-----------------------------------------------------------------------------
(* Math.sin, Math.cos and Math.atan2 as the JavaScript engine computes      *)
(* them: the fdlibm algorithms, step by step in double arithmetic.          *)

\* c[1] + z * (c[2] + z * (... + z * c[n])), from the inside out: st.acc is
\* c[st.i + 1] + z * (...)
RECURSIVE HornerFrom(_, _, _)
HornerFrom(z, c, st) ==
    IF st.i = 0 THEN st.acc
    ELSE HornerFrom(z, c, [i |-> st.i - 1,
                           acc |-> NumAdd(c[st.i], NumMul(z, st.acc))])

Horner(z, c) == HornerFrom(z, c, [i |-> Len(c) - 1, acc |-> c[Len(c)]])

half == Words(FALSE, \H3FE00000, \H0000, \H0000)

one == Words(FALSE, \H3FF00000, \H0000, \H0000)

S1 == Words(TRUE, \H3FC55555, \H5555, \H5549)

S2to6 ==
    << Words(FALSE, \H3F811111, \H1110, \HF8A6),
       Words(TRUE, \H3F2A01A0, \H19C1, \H61D5),
       Words(FALSE, \H3EC71DE3, \H57B1, \HFE7D),
       Words(TRUE, \H3E5AE5E6, \H8A2B, \H9CEB),
       Words(FALSE, \H3DE5D93A, \H5ACF, \HD57C) >>

\* the locals of __kernel_sin after z = x * x: v = z * x and
\* r = S2 + z * (S3 + ...)
kernel_sin_locals(x, iy, z) ==
    [iy |-> iy, z |-> z, v |-> NumMul(z, x), r |-> Horner(z, S2to6)]

\* the two return statements of __kernel_sin
kernel_sin_return(x, y, l) ==
    IF l.iy = 0 THEN NumAdd(x, NumMul(l.v, NumAdd(S1, NumMul(l.z, l.r))))
    ELSE NumSub(x,
                NumSub(NumSub(NumMul(l.z, NumSub(NumMul(half, y), NumMul(l.v, l.r))),
                              y),
                       NumMul(l.v, S1)))

\* __kernel_sin: sin(x + y) for |x| <= pi/4, y the tail of x (iy = 0: y is 0)
kernel_sin(x, y, iy) ==
    IF HighWord(x) < \H3e400000 THEN x
    ELSE kernel_sin_return(x, y, kernel_sin_locals(x, iy, NumMul(x, x)))

C1to6 ==
    << Words(FALSE, \H3FA55555, \H5555, \H554C),
       Words(TRUE, \H3F56C16C, \H16C1, \H5177),
       Words(FALSE, \H3EFA01A0, \H19CB, \H1590),
       Words(TRUE, \H3E927E4F, \H809C, \H52AD),
       Words(FALSE, \H3E21EE9E, \HBDB4, \HB1C4),
       Words(TRUE, \H3DA8FAE9, \HBE88, \H38D4) >>

\* the locals of __kernel_cos after z = x * x: the high word ix and
\* r = z * (C1 + z * (C2 + ...))
kernel_cos_locals(ix, z) ==
    [ix |-> ix, z |-> z, r |-> NumMul(z, Horner(z, C1to6))]

\* the return statement of __kernel_cos for |x| >= 0.3
kernel_cos_qx(x, y, l, qx) ==
    NumSub(NumSub(one, qx),
           NumSub(NumSub(NumMul(half, l.z), qx),
                  NumSub(NumMul(l.z, l.r), NumMul(x, y))))

\* the return statements: qx is x/4, or 0.28125 above 0.78125
kernel_cos_return(x, y, l) ==
    CASE l.ix < \H3FD33333 ->
            NumSub(one, NumSub(NumMul(half, l.z),
                               NumSub(NumMul(l.z, l.r), NumMul(x, y))))
      [] l.ix > \H3fe90000 ->
            kernel_cos_qx(x, y, l, Words(FALSE, \H3FD20000, \H0000, \H0000))
      [] OTHER ->
            kernel_cos_qx(x, y, l, Words(FALSE, l.ix - \H00200000, 0, 0))

\* __kernel_cos: cos(x + y) for |x| <= pi/4, y the tail of x
kernel_cos(x, y) ==
    IF HighWord(x) < \H3e400000 THEN one
    ELSE kernel_cos_return(x, y, kernel_cos_locals(HighWord(x), NumMul(x, x)))

invpio2 == Words(FALSE, \H3FE45F30, \H6DC9, \HC883)

pio2_1 == Words(FALSE, \H3FF921FB, \H5440, \H0000)

pio2_1t == Words(FALSE, \H3DD0B461, \H1A62, \H6331)

pio2_2 == Words(FALSE, \H3DD0B461, \H1A60, \H0000)

pio2_2t == Words(FALSE, \H3BA3198A, \H2E03, \H7073)

pio2_3 == Words(FALSE, \H3BA3198A, \H2E00, \H0000)

pio2_3t == Words(FALSE, \H397B839A, \H2520, \H49C1)

npio2_hw ==
    << \H3FF921FB, \H400921FB, \H4012D97C, \H401921FB, \H401F6A7A, \H4022D97C,
       \H4025FDBB, \H402921FB, \H402C463A, \H402F6A7A, \H4031475C, \H4032D97C,
       \H40346B9C, \H4035FDBB, \H40378FDB, \H403921FB, \H403AB41B, \H403C463A,
       \H403DD85A, \H403F6A7A, \H40407E4C, \H4041475C, \H4042106C, \H4042D97C,
       \H4043A28C, \H40446B9C, \H404534AC, \H4045FDBB, \H4046C6CB, \H40478FDB,
       \H404858EB, \H404921FB >>

ReduceStepResult(r, w) == [r |-> r, w |-> w, y0 |-> NumSub(r, w)]

ReduceStepTail(fn, t, pt, w0, r) ==
    ReduceStepResult(r, NumSub(NumMul(fn, pt), NumSub(NumSub(t, r), w0)))

ReduceStepHead(fn, t, pt, w0) == ReduceStepTail(fn, t, pt, w0, NumSub(t, w0))

\* one more step of the reduction: r, w (and y0 = r - w) from the next part
\* p of pi/2 and its tail pt
ReduceStep(fn, t, p, pt) == ReduceStepHead(fn, t, pt, NumMul(fn, p))

\* x near +-pi/2 (pi/4 < |x| < 3pi/4): one subtraction or addition of pi/2
ReduceNearDone(x, y0, y1) ==
    IF x.neg THEN [n |-> -1, y0 |-> NumNeg(y0), y1 |-> NumNeg(y1)]
    ELSE [n |-> 1, y0 |-> y0, y1 |-> y1]

ReduceNearTail(x, z, tail, y0) ==
    ReduceNearDone(x, y0, NumSub(NumSub(z, y0), tail))

ReduceNear(x, z, tail) == ReduceNearTail(x, z, tail, NumSub(z, tail))

ReduceNearHalfPi(x) ==
    IF HighWord(x) = \H3ff921fb
    THEN ReduceNear(x, NumSub(NumSub(NumAbs(x), pio2_1), pio2_2), pio2_2t)
    ELSE ReduceNear(x, NumSub(NumAbs(x), pio2_1), pio2_1t)

\* the reduction has stopped at step s: the tail y1 and the signs
ReduceDone(x, n, s) ==
    IF x.neg THEN [n |-> -n, y0 |-> NumNeg(s.y0),
                   y1 |-> NumNeg(NumSub(NumSub(s.r, s.y0), s.w))]
    ELSE [n |-> n, y0 |-> s.y0, y1 |-> NumSub(NumSub(s.r, s.y0), s.w)]

\* the third step, when the second has cancelled more than 49 bits
ReduceThird(x, j, n, fn, s2) ==
    IF j - BiasedExponent(s2.y0) <= 49 THEN ReduceDone(x, n, s2)
    ELSE ReduceDone(x, n, ReduceStep(fn, s2.r, pio2_3, pio2_3t))

\* the first step s1: enough unless |x| is close to n * pi/2
ReduceSecond(x, ix, n, fn, s1) ==
    IF n < 32 /\ ix # npio2_hw[n] THEN ReduceDone(x, n, s1)
    ELSE IF (ix \div 2 ^ 20) - BiasedExponent(s1.y0) <= 16 THEN ReduceDone(x, n, s1)
    ELSE ReduceThird(x, ix \div 2 ^ 20, n, fn,
                     ReduceStep(fn, s1.r, pio2_2, pio2_2t))

ReduceFirst(x, n, fn, r, w) ==
    ReduceSecond(x, HighWord(x), n, fn, [r |-> r, w |-> w, y0 |-> NumSub(r, w)])

ReduceBy(x, t, n) ==
    ReduceFirst(x, n, FromInt(n),
                NumSub(t, NumMul(FromInt(n), pio2_1)),
                NumMul(FromInt(n), pio2_1t))

\* |x| up to 2^19 * pi/2: n = round(|x| * 2/pi), remainder in up to three steps
ReduceMedium(x) ==
    ReduceBy(x, NumAbs(x), TruncToInt(NumAdd(NumMul(NumAbs(x), invpio2), half)))

\* __ieee754_rem_pio2: x = n * pi/2 + y0 + y1 with |y0 + y1| <= pi/4, for
\* finite |x| up to 2^19 * pi/2 (every angle of the program is far below)
rem_pio2(x) ==
    CASE HighWord(x) <= \H3fe921fb -> [n |-> 0, y0 |-> x, y1 |-> NumZero]
      [] HighWord(x) < \H4002d97c -> ReduceNearHalfPi(x)
      [] OTHER -> ReduceMedium(x)

\* the switch on n & 3 of sin (shift 0) and cos (shift 1) for the reduced y
Quadrant(y, shift) ==
    CASE (y.n + shift) % 4 = 0 -> kernel_sin(y.y0, y.y1, 1)
      [] (y.n + shift) % 4 = 1 -> kernel_cos(y.y0, y.y1)
      [] (y.n + shift) % 4 = 2 -> NumNeg(kernel_sin(y.y0, y.y1, 1))
      [] OTHER -> NumNeg(kernel_cos(y.y0, y.y1))

\* sin
Sine(x) ==
    CASE x.k # "fin" -> NumNaN
      [] HighWord(x) <= \H3fe921fb -> kernel_sin(x, NumZero, 0)
      [] OTHER -> Quadrant(rem_pio2(x), 0)

\* cos
Cosine(x) ==
    CASE x.k # "fin" -> NumNaN
      [] HighWord(x) <= \H3fe921fb -> kernel_cos(x, NumZero)
      [] OTHER -> Quadrant(rem_pio2(x), 1)

atanhi ==
    << Words(FALSE, \H3FDDAC67, \H0561, \HBB4F),
       Words(FALSE, \H3FE921FB, \H5444, \H2D18),
       Words(FALSE, \H3FEF730B, \HD281, \HF69B),
       Words(FALSE, \H3FF921FB, \H5444, \H2D18) >>

atanlo ==
    << Words(FALSE, \H3C7A2B7F, \H222F, \H65E2),
       Words(FALSE, \H3C81A626, \H3314, \H5C07),
       Words(FALSE, \H3C700788, \H7AF0, \HCBBD),
       Words(FALSE, \H3C91A626, \H3314, \H5C07) >>

\* the coefficients aT[0], aT[2], ... and aT[1], aT[3], ...
aTeven ==
    << Words(FALSE, \H3FD55555, \H5555, \H550D),
       Words(FALSE, \H3FC24924, \H9200, \H83FF),
       Words(FALSE, \H3FB745CD, \HC54C, \H206E),
       Words(FALSE, \H3FB10D66, \HA0D0, \H3D51),
       Words(FALSE, \H3FA97B4B, \H2476, \H0DEB),
       Words(FALSE, \H3F90AD3A, \HE322, \HDA11) >>

aTodd ==
    << Words(TRUE, \H3FC99999, \H9998, \HEBC4),
       Words(TRUE, \H3FBC71C6, \HFE23, \H1671),
       Words(TRUE, \H3FB3B0F2, \HAF74, \H9A6D),
       Words(TRUE, \H3FADDE2D, \H52DE, \HFD9A),
       Words(TRUE, \H3FA2B444, \H2C6A, \H6C2F) >>

two == Words(FALSE, \H40000000, \H0000, \H0000)

oneAndHalf == Words(FALSE, \H3FF80000, \H0000, \H0000)

\* the argument reduction of atan: the interval id (0 when |x| < 7/16) and
\* the reduced argument, from the high word ix and t = |x|
AtanReduceBy(x, ix, t) ==
    CASE ix < \H3FDC0000 -> [id |-> 0, x |-> x]
      [] ix < \H3FE60000 ->
            [id |-> 1, x |-> NumDiv(NumSub(NumMul(two, t), one), NumAdd(two, t))]
      [] ix < \H3FF30000 ->
            [id |-> 2, x |-> NumDiv(NumSub(t, one), NumAdd(t, one))]
      [] ix < \H40038000 ->
            [id |-> 3, x |-> NumDiv(NumSub(t, oneAndHalf),
                                    NumAdd(one, NumMul(oneAndHalf, t)))]
      [] OTHER -> [id |-> 4, x |-> NumDiv(NumNeg(one), t)]

AtanReduce(x) == AtanReduceBy(x, HighWord(x), NumAbs(x))

\* the locals of atan after the reduction red, z = x * x and w = z * z:
\* s1 = z * (aT[0] + w * (aT[2] + ...)) and s2 = w * (aT[1] + w * (aT[3] + ...))
AtanSums(red, z, w) ==
    [id |-> red.id, x |-> red.x,
     s1 |-> NumMul(z, Horner(w, aTeven)),
     s2 |-> NumMul(w, Horner(w, aTodd))]

\* the return statements of atan
AtanResult(x, l) ==
    CASE l.id = 0 -> NumSub(l.x, NumMul(l.x, NumAdd(l.s1, l.s2)))
      [] x.neg ->
            NumNeg(NumSub(atanhi[l.id],
                          NumSub(NumSub(NumMul(l.x, NumAdd(l.s1, l.s2)), atanlo[l.id]),
                                 l.x)))
      [] OTHER ->
            NumSub(atanhi[l.id],
                   NumSub(NumSub(NumMul(l.x, NumAdd(l.s1, l.s2)), atanlo[l.id]), l.x))

AtanZ(x, red, z) == AtanResult(x, AtanSums(red, z, NumMul(z, z)))

AtanReduced(x, red) == AtanZ(x, red, NumMul(red.x, red.x))

\* atan
ArcTangent(x) ==
    CASE x.k = "nan" -> NumNaN
      [] HighWord(x) >= \H44100000 ->
            IF x.neg THEN NumSub(NumNeg(atanhi[4]), atanlo[4])
            ELSE NumAdd(atanhi[4], atanlo[4])
      [] HighWord(x) < \H3E200000 -> x
      [] OTHER -> AtanReduced(x, AtanReduce(x))

pi_o_4 == Words(FALSE, \H3FE921FB, \H5444, \H2D18)

pi_o_2 == Words(FALSE, \H3FF921FB, \H5444, \H2D18)

pi == Words(FALSE, \H400921FB, \H5444, \H2D18)

pi_lo == Words(FALSE, \H3CA1A626, \H3314, \H5C07)

\* Math.PI
MathPI == pi

\* the result of atan2 from z = atan|y/x| and the quadrant m
\* (bit 0: y is negative, bit 1: x is negative)
AtanQuadrant(z, m) ==
    IF m = 0 THEN z
    ELSE IF m = 1 THEN NumNeg(z)
    ELSE IF m = 2 THEN NumSub(pi, NumSub(z, pi_lo))
    ELSE NumSub(NumSub(z, pi_lo), pi)

\* atan2 of finite non-zero y and x: k is the difference of their exponents
Atan2Finite(y, x, m, k) ==
    CASE k > 60 -> AtanQuadrant(NumAdd(pi_o_2, NumMul(half, pi_lo)), m % 2)
      [] x.neg /\ k < -60 -> AtanQuadrant(NumZero, m)
      [] OTHER -> AtanQuadrant(ArcTangent(NumAbs(NumDiv(y, x))), m)

\* atan2 for the quadrant m (bit 0: y is negative, bit 1: x is negative)
Atan2Quadrant(y, x, m) ==
    CASE IsZero(y) -> (IF m <= 1 THEN y ELSE IF m = 2 THEN pi ELSE NumNeg(pi))
      [] IsZero(x) -> (IF y.neg THEN NumNeg(pi_o_2) ELSE pi_o_2)
      [] x.k = "inf" /\ y.k = "inf" ->
            (CASE m = 0 -> pi_o_4
               [] m = 1 -> NumNeg(pi_o_4)
               [] m = 2 -> NumMul(FromInt(3), pi_o_4)
               [] OTHER -> NumMul(FromInt(-3), pi_o_4))
      [] x.k = "inf" ->
            (CASE m = 0 -> NumZero
               [] m = 1 -> NumNeg(NumZero)
               [] m = 2 -> pi
               [] OTHER -> NumNeg(pi))
      [] y.k = "inf" -> (IF y.neg THEN NumNeg(pi_o_2) ELSE pi_o_2)
      [] OTHER -> Atan2Finite(y, x, m, (HighWord(y) - HighWord(x)) \div 2 ^ 20)

\* atan2
ArcTangent2(y, x) ==
    CASE x.k = "nan" \/ y.k = "nan" -> NumNaN
      [] x = one -> ArcTangent(y)
      [] OTHER -> Atan2Quadrant(y, x, (IF y.neg THEN 1 ELSE 0) + (IF x.neg THEN 2 ELSE 0))

-----------------------------------------------------------------------------
(* Geometry utilities *)

\* const bounds = { north: 26.8, south: 20.3, east: 92.8, west: 88.0 }
bounds ==
    [north |-> Lit(268, -1),
     south |-> Lit(203, -1),
     east  |-> Lit(928, -1),
     west  |-> Lit(880, -1)]

isWithinBangladeshBoundsExclusive(coordinates) ==
    LET lng == coordinates[1]
        lat == coordinates[2]
    IN  /\ NumLe(bounds.south, lat)
        /\ NumLt(lat, bounds.north)
        /\ NumLe(bounds.west, lng)
        /\ NumLt(lng, bounds.east)

\* isWithinBangladeshBounds
isWithinBangladeshBounds(coordinates) ==
    LET lng == coordinates[1]
        lat == coordinates[2]
    IN  /\ NumLe(bounds.south, lat)
        /\ NumLe(lat, bounds.north)
        /\ NumLe(bounds.west, lng)
        /\ NumLe(lng, bounds.east)

\* lat * Math.PI / 180 and its relatives
Radians(deg) == NumDiv(NumMul(deg, MathPI), FromInt(180))

\* the constants of calculateDistance in the order of its statements: the
\* latitudes, dLat and dLng
DistanceDeltas(coord1, coord2) ==
    [lat1 |-> coord1[2],
     lat2 |-> coord2[2],
     dLat |-> Radians(NumSub(coord2[2], coord1[2])),
     dLng |-> Radians(NumSub(coord2[1], coord1[1]))]

\* const a, from the constants v before it
DistanceA(v) ==
    LET sLat == MathSin(NumDiv(v.dLat, FromInt(2)))
        sLng == MathSin(NumDiv(v.dLng, FromInt(2)))
    IN  [dLat |-> v.dLat,
         a |-> NumAdd(NumMul(sLat, sLat),
                      NumMul(NumMul(NumMul(MathCos(Radians(v.lat1)),
                                           MathCos(Radians(v.lat2))), sLng), sLng))]

\* const c, from a
DistanceC(v) ==
    [a |-> v.a,
     c |-> NumMul(FromInt(2),
                  MathAtan2(MathSqrt(v.a), MathSqrt(NumSub(FromInt(1), v.a))))]

\* calculateDistance (haversine, kilometres): return R * c
calculateDistance(coord1, coord2) ==
    NumMul(FromInt(6371), DistanceC(DistanceA(DistanceDeltas(coord1, coord2))).c)

\* one pass of the loop body of createCirclePolygon
CirclePoint(center, radiusInKm, points, i) ==
    LET lng == center[1]
        lat == center[2]
        angle == NumDiv(NumMul(FromInt(i * 2), MathPI), FromInt(points))
        dx == NumDiv(NumMul(MathCos(angle), radiusInKm), Lit(11132, -2))
        dy == NumDiv(NumMul(MathSin(angle), radiusInKm),
                     NumMul(Lit(11132, -2),
                            MathCos(NumMul(lat, NumDiv(MathPI, FromInt(180))))))
    IN  <<NumAdd(lng, dx), NumAdd(lat, dy)>>

\* createCirclePolygon: the loop, then coords.push(coords[0])
createCirclePolygon(center, radiusInKm, points) ==
    LET n == IF points > 0 THEN points ELSE 0
        coords == [i \in 1 .. n |-> CirclePoint(center, radiusInKm, points, i - 1)]
    IN  [kind |-> "return",
         ring |-> Append(coords, IF n > 0 THEN coords[1] ELSE JsUndefined)]

\* the default of the parameter points
DefaultPoints == 64

\* createCirclePoints of GeometryScreen: the same loop and closing push
createCirclePoints(center, radiusInKm, points) ==
    LET n == IF points > 0 THEN points ELSE 0
        coords == [i \in 1 .. n |-> CirclePoint(center, radiusInKm, points, i - 1)]
    IN  [kind |-> "return",
         ring |-> Append(coords, IF n > 0 THEN coords[1] ELSE JsUndefined)]

\* const centerPoint = [90.366659, 23.823724]
centerPoint == <<Lit(90366659, -6), Lit(23823724, -6)>>

\* the value of an operation on numbers, or of a call of a geometry utility;
\* an operation on NaN gives NaN
Num(op, a, b) ==
    CASE op = "calculateDistance"   -> calculateDistance(a, b)
      [] op = "createCirclePolygon" -> createCirclePolygon(a, b[1], b[2])
      [] op = "createCirclePoints"  -> createCirclePoints(a, b[1], b[2])
      [] a = NumNaN   -> NumNaN
      [] b = NumNaN   -> NumNaN
      [] op = "add"   -> Sum(a, b)
      [] op = "sub"   -> Sum(a, NumNeg(b))
      [] op = "mul"   -> Product(a, b)
      [] op = "div"   -> Quotient(a, b)
      [] op = "sqrt"  -> SquareRoot(a)
      [] op = "sin"   -> Sine(a)
      [] op = "cos"   -> Cosine(a)
      [] op = "atan2" -> ArcTangent2(a, b)

-----------------------------------------------------------------------------
(* DraggableMarkerScreen *)

MIN_ZOOM_LEVEL == 0

MAX_ZOOM_LEVEL == 22

DEFAULT_ZOOM_LEVEL == 16

\* DEFAULT_COORDINATES.DHAKA, the centerCoordinate of DEFAULT_CAMERA_SETTINGS
DHAKA == <<Lit(90364159, -6), Lit(23823724, -6)>>

JsArray(items) == [t |-> "array", items |-> items]

\* Math.min and Math.max of two numbers
MathMin(a, b) ==
    IF a.k = "nan" \/ b.k = "nan" THEN NumNaN ELSE IF NumLe(a, b) THEN a ELSE b

MathMax(a, b) ==
    IF a.k = "nan" \/ b.k = "nan" THEN NumNaN ELSE IF NumLe(a, b) THEN b ELSE a

\* the Camera instance cameraRef.current points to once the map is rendered
CameraInstance == JsObj("Camera")

\* no camera command sent yet
NoCommand == [none |-> TRUE]

\* the state of the first render: the hook reports loading, so the screen
\* returns the loading view and no map, camera or control exists
InitialMarker ==
    [mounted          |-> FALSE,
     style            |-> InitialHook,
     stylePending     |-> FALSE,
     markerCoordinate |-> DHAKA,
     zoomLevel        |-> FromInt(DEFAULT_ZOOM_LEVEL),
     mapRotation      |-> NumZero,
     cameraRef        |-> JsNull,
     isManualZoomRef  |-> FALSE,
     timeouts         |-> 0,
     sent             |-> 0,
     lastCommand      |-> NoCommand]

\* position[i - 1] of a JS array: undefined beyond its length
ElementAt(position, i) ==
    IF i <= Len(position) THEN position[i] ELSE JsUndefined

\* const [lng = fallback[0], lat = fallback[1]] = position
toLngLatTuple(position, fallback) ==
    LET lng == IF ElementAt(position, 1) = JsUndefined THEN fallback[1]
               ELSE ElementAt(position, 1)
        lat == IF ElementAt(position, 2) = JsUndefined THEN fallback[2]
               ELSE ElementAt(position, 2)
    IN  <<lng, lat>>

extractFromGeometryLastPoint(feature, markerCoordinate) ==
    IF feature.geometry = JsUndefined \/ feature.geometry = JsNull THEN JsNull
    ELSE IF feature.geometry.type = "Point"
         THEN JsArray(toLngLatTuple(feature.geometry.coordinates, markerCoordinate))
    ELSE IF /\ feature.geometry.type = "MultiPoint"
            /\ Len(feature.geometry.coordinates) > 0
         THEN JsArray(toLngLatTuple(
                  feature.geometry.coordinates[Len(feature.geometry.coordinates)],
                  markerCoordinate))
    ELSE JsNull

extractFromGeometry(feature, markerCoordinate) ==
    IF feature.geometry = JsUndefined \/ feature.geometry = JsNull THEN JsNull
    ELSE IF feature.geometry.type = "Point"
         THEN JsArray(toLngLatTuple(feature.geometry.coordinates, markerCoordinate))
    ELSE IF /\ feature.geometry.type = "MultiPoint"
            /\ Len(feature.geometry.coordinates) > 0
         THEN JsArray(toLngLatTuple(feature.geometry.coordinates[1], markerCoordinate))
    ELSE JsNull

handleMapPress(m, payload) ==
    LET coords == extractFromGeometry(payload, m.markerCoordinate)
    IN  IF Truthy(coords) THEN [m EXCEPT !.markerCoordinate = coords.items] ELSE m

\* cameraRef.current.setCamera(command)
setCamera(m, command) ==
    [m EXCEPT !.sent = @ + 1, !.lastCommand = command]

handleZoomInUnclamped(m) ==
    IF NumLe(FromInt(MAX_ZOOM_LEVEL), m.zoomLevel) \/ ~Truthy(m.cameraRef) THEN m
    ELSE LET newZoom == NumAdd(m.zoomLevel, FromInt(1))
         IN  setCamera([m EXCEPT !.isManualZoomRef = TRUE,
                                 !.zoomLevel = newZoom,
                                 !.timeouts = @ + 1],
                       [zoomLevel |-> newZoom, animationDuration |-> 300,
                        animationMode |-> "easeTo"])

handleZoomIn(m) ==
    IF NumLe(FromInt(MAX_ZOOM_LEVEL), m.zoomLevel) \/ ~Truthy(m.cameraRef) THEN m
    ELSE LET newZoom == MathMin(NumAdd(m.zoomLevel, FromInt(1)),
                                FromInt(MAX_ZOOM_LEVEL))
         IN  setCamera([m EXCEPT !.isManualZoomRef = TRUE,
                                 !.zoomLevel = newZoom,
                                 !.timeouts = @ + 1],
                       [zoomLevel |-> newZoom, animationDuration |-> 300,
                        animationMode |-> "easeTo"])

handleZoomOut(m) ==
    IF NumLe(m.zoomLevel, FromInt(MIN_ZOOM_LEVEL)) \/ ~Truthy(m.cameraRef) THEN m
    ELSE LET newZoom == MathMax(NumSub(m.zoomLevel, FromInt(1)),
                                FromInt(MIN_ZOOM_LEVEL))
         IN  setCamera([m EXCEPT !.isManualZoomRef = TRUE,
                                 !.zoomLevel = newZoom,
                                 !.timeouts = @ + 1],
                       [zoomLevel |-> newZoom, animationDuration |-> 200,
                        animationMode |-> "easeTo"])

handleCompassResetKeepsRotation(m) ==
    IF ~Truthy(m.cameraRef) THEN m
    ELSE setCamera(m, [heading |-> NumZero, animationDuration |-> 500,
                       animationMode |-> "easeTo"])

handleCompassReset(m) ==
    IF ~Truthy(m.cameraRef) THEN m
    ELSE [setCamera(m, [heading |-> NumZero, animationDuration |-> 500,
                        animationMode |-> "easeTo"])
             EXCEPT !.mapRotation = NumZero]

\* feature.properties?.heading || 0
HeadingOrZero(feature) ==
    LET heading == IF feature.properties \in {JsUndefined, JsNull} THEN JsUndefined
                   ELSE feature.properties.heading
    IN  IF \/ heading = JsUndefined
           \/ heading = JsNull
           \/ heading = NumZero
           \/ heading = NumNeg(NumZero)
           \/ heading = NumNaN
        THEN NumZero
        ELSE heading

handleRegionChange(m, feature) ==
    LET zoom == IF feature.properties \in {JsUndefined, JsNull} THEN JsUndefined
                ELSE feature.properties.zoomLevel
    IN  [m EXCEPT !.mapRotation = HeadingOrZero(feature),
                  !.zoomLevel = IF ~m.isManualZoomRef /\ zoom # JsUndefined
                                THEN zoom ELSE @]

\* handleDrag and handleDragEnd: setMarkerCoordinate(extractCoordinate(payload))
handleDrag(m, payload) ==
    [m EXCEPT !.markerCoordinate =
                  toLngLatTuple(payload.geometry.coordinates, m.markerCoordinate)]

\* the screen returns the map view (MapView, Camera, PointAnnotation and the
\* controls) only after the early returns of `if (loading)` and `if (error)`
MapRendered(m) == Render(m.style).view = "map"

\* after a render is committed cameraRef.current is the rendered Camera, or null
CommitMarker(m) ==
    [m EXCEPT !.cameraRef = IF MapRendered(m) THEN CameraInstance ELSE JsNull]

\* the controls of the map view: both zoom buttons, disabled at their limit,
\* and {mapRotation !== 0 && (<compass control>)}
RenderControls(m) ==
    [zoomInDisabled  |-> NumLe(FromInt(MAX_ZOOM_LEVEL), m.zoomLevel),
     zoomOutDisabled |-> NumLe(m.zoomLevel, FromInt(MIN_ZOOM_LEVEL)),
     compass         |-> ~NumEq(m.mapRotation, NumZero)]

-----------------------------------------------------------------------------
(* Screens that fetch the style inline with a promise chain *)

InlineScreens == {"GeometryScreen", "MarkerScreen", "PolygonScreen"}

\* the key in the URL the screens fetch
InlineKey == "NDE2NzpVNzkyTE5UMUoy"

\* the JSON body of an error response
ErrorBody == JsObj([message |-> JsStr(<<"Invalid API key">>)])

\* what the endpoint can answer an inline fetch with
InlineOutcomes ==
    Outcomes(InlineKey)
    \cup {[kind |-> "response", status |-> 401,
           body |-> [valid |-> TRUE, value |-> ErrorBody]]}

\* useState(null); nothing fetched before the effect runs
InitialInlineScreen ==
    [mounted |-> FALSE, pending |-> FALSE, styleJson |-> JsNull, logged |-> JsNull]

InitialInline == [s \in InlineScreens |-> InitialInlineScreen]

\* fetch(url).then(response => response.json()).then(data => { if
\* (data.sprite) delete data.sprite; ... }): the value handed to
\* setStyleJson, or the rejection handed to .catch
inlineStyleChain(outcome) ==
    IF outcome.kind = "reject" THEN Rejected(outcome.err)
    ELSE LET parsed == ResponseJson(outcome.body)
         IN  IF ~parsed.ok THEN parsed ELSE RemoveSprite(parsed.value)

\* the chain settles: setStyleJson(data), or console.error in .catch
inlineSettled(scr, result) ==
    IF result.ok THEN [scr EXCEPT !.pending = FALSE, !.styleJson = result.value]
    ELSE [scr EXCEPT !.pending = FALSE, !.logged = result.value]

\* {styleJson ? <MapView mapStyle={styleJson}> : <Text>Loading Map...</Text>}
RenderInline(scr) ==
    IF Truthy(scr.styleJson) THEN [view |-> "map", mapStyle |-> scr.styleJson]
    ELSE [view |-> "loading"]

-----------------------------------------------------------------------------
(* CurrentLocationScreen *)

NoAlert == JsNull

\* the alert Alert.alert(title, message, ...) shows
AlertShown(title, message) == [t |-> "alert", title |-> title, message |-> message]

\* the integer nearest to |a| * 10^digits, the larger one of two nearest
ScaledRound(a, digits) ==
    LET scaled == BigMul(a.m, BigPow10(digits))
    IN  IF a.e >= 0 THEN BigShl(scaled, a.e)
        ELSE BigAdd(BigShr(scaled, -a.e), BigFromNat(BigBit(scaled, -a.e - 1)))

\* Number.prototype.toFixed, for |a| < 1e21 and digits > 0
toFixed(a, digits) ==
    IF a.k = "nan" THEN <<"NaN">>
    ELSE IF a.k = "inf" THEN (IF a.neg THEN <<"-">> ELSE <<>>) \o <<"Infinity">>
    ELSE LET ds == BigDigits(ScaledRound(a, digits))
             padded == [i \in 1 .. (digits + 1 - Len(ds)) |-> 0] \o ds
             chars == [i \in 1 .. Len(padded) |-> DigitChar(padded[i])]
             whole == Len(chars) - digits
         IN  (IF NumLt(a, NumZero) THEN <<"-">> ELSE <<>>)
                 \o SubSeq(chars, 1, whole) \o <<".">>
                 \o SubSeq(chars, whole + 1, Len(chars))

\* the useState cells hold the states as last set; rendered holds the
\* userLocation and hasFlownToLocation of the last render, which the
\* handlers and the effect of that render close over; renderPending: a
\* setter has been called since; effectPending: the last render changed a
\* dependency of the fly-to effect, which has not run yet; firstReceived is
\* no state of the screen: it keeps the first location the UserLocation
\* layer delivered
InitialLocation ==
    [mounted               |-> FALSE,
     styleJson             |-> JsNull,
     stylePending          |-> FALSE,
     userLocation          |-> JsNull,
     hasLocationPermission |-> FALSE,
     permissionLoading     |-> TRUE,
     hasFlownToLocation    |-> FALSE,
     rendered              |-> [userLocation |-> JsNull, hasFlownToLocation |-> FALSE],
     renderPending         |-> FALSE,
     effectPending         |-> FALSE,
     cameraRef             |-> JsNull,
     firstReceived         |-> JsNull,
     request               |-> "none",
     serviceEnabled        |-> JsUndefined,
     status                |-> JsUndefined,
     sent                  |-> 0,
     lastCommand           |-> NoCommand,
     alert                 |-> NoAlert]

\* what the screen renders: the early return while permissionLoading, else
\* the map (if styleJson) with its children, and the permission banner
RenderLocation(l) ==
    IF l.permissionLoading THEN [view |-> "requesting"]
    ELSE [view              |-> "screen",
          map               |-> Truthy(l.styleJson),
          userLocationLayer |-> Truthy(l.styleJson) /\ l.hasLocationPermission,
          locationMarker    |-> Truthy(l.styleJson) /\ Truthy(l.userLocation),
          banner            |-> ~l.hasLocationPermission /\ ~l.permissionLoading]

\* the command of the fly-to effect
FlyToCommand(userLocation) ==
    [centerCoordinate |-> <<userLocation.f.coords.longitude,
                            userLocation.f.coords.latitude>>,
     zoomLevel |-> 16,
     animationDuration |-> 2000,
     animationMode |-> "flyTo"]

\* the body of the effect on [userLocation, hasFlownToLocation], with the
\* userLocation and hasFlownToLocation of its render
flyToEffect(l) ==
    IF /\ Truthy(l.rendered.userLocation)
       /\ ~l.rendered.hasFlownToLocation
       /\ Truthy(l.cameraRef)
    THEN [l EXCEPT !.sent = @ + 1,
                   !.lastCommand = FlyToCommand(l.rendered.userLocation),
                   !.hasFlownToLocation = TRUE,
                   !.renderPending = TRUE]
    ELSE l

\* the pending effect of the last render runs
runEffects(l) ==
    IF l.effectPending THEN [flyToEffect(l) EXCEPT !.effectPending = FALSE] ELSE l

\* a render and its commit: the effect left from the render before runs
\* first; then the screen renders with the current states, cameraRef.current
\* becomes the rendered Camera, or null, and the fly-to effect is scheduled
\* if one of its dependencies differs from the render before
CommitLocation(l) ==
    LET f == runEffects(l)
        r == RenderLocation(f)
        deps == [userLocation |-> f.userLocation,
                 hasFlownToLocation |-> f.hasFlownToLocation]
    IN  [f EXCEPT !.cameraRef =
                      IF r.view = "screen" /\ r.map THEN CameraInstance ELSE JsNull,
                  !.rendered = deps,
                  !.renderPending = FALSE,
                  !.effectPending = (deps # f.rendered)]

\* handleLocationUpdate: setUserLocation(location)
handleLocationUpdate(l, loc) ==
    [l EXCEPT !.userLocation = loc, !.renderPending = TRUE]

\* handleLocationPress: the alert with the coordinates, if the render the
\* handler belongs to had a location
handleLocationPress(l) ==
    IF Truthy(l.rendered.userLocation)
    THEN [l EXCEPT !.alert =
              AlertShown("Current Location",
                         <<"Latitude: ">>
                             \o toFixed(l.rendered.userLocation.f.coords.latitude, 6)
                             \o <<"\nLongitude: ">>
                             \o toFixed(l.rendered.userLocation.f.coords.longitude, 6))]
    ELSE l

\* requestLocationPermission up to its first await
requestLocationPermissionBegin(l) ==
    CommitLocation([l EXCEPT !.permissionLoading = TRUE,
                             !.request = "awaitServices",
                             !.serviceEnabled = JsUndefined,
                             !.status = JsUndefined])

\* hasServicesEnabledAsync resolved: alert and return (through finally) when
\* services are off, else on to requestForegroundPermissionsAsync
servicesResolved(l, enabled) ==
    IF ~enabled
    THEN CommitLocation([l EXCEPT !.serviceEnabled = JsBool(FALSE),
                                  !.alert = AlertShown("Location Services Disabled",
                                      <<"Please enable location services in your device settings to view your current location.">>),
                                  !.permissionLoading = FALSE,
                                  !.request = "none"])
    ELSE [l EXCEPT !.serviceEnabled = JsBool(TRUE), !.request = "awaitPermission"]

permissionResolvedAnyStatus(l, status) ==
    CommitLocation([l EXCEPT !.status = JsStr(<<status>>),
                             !.hasLocationPermission = TRUE,
                             !.permissionLoading = FALSE,
                             !.request = "none"])

\* requestForegroundPermissionsAsync resolved with { status }, then finally
permissionResolved(l, status) ==
    IF status = "granted"
    THEN CommitLocation([l EXCEPT !.status = JsStr(<<status>>),
                                  !.hasLocationPermission = TRUE,
                                  !.permissionLoading = FALSE,
                                  !.request = "none"])
    ELSE CommitLocation([l EXCEPT !.status = JsStr(<<status>>),
                                  !.alert = AlertShown("Location Permission Required",
                                      <<"This app needs location permission to show your current position on the map.">>),
                                  !.permissionLoading = FALSE,
                                  !.request = "none"])

requestThrewNoFinally(l) ==
    CommitLocation([l EXCEPT !.alert = AlertShown("Error",
                                      <<"Failed to request location permission">>),
                             !.request = "none"])

\* an awaited call rejected: catch shows the alert, then finally
requestThrew(l) ==
    CommitLocation([l EXCEPT !.alert = AlertShown("Error",
                                      <<"Failed to request location permission">>),
                             !.permissionLoading = FALSE,
                             !.request = "none"])

-----------------------------------------------------------------------------
(* HomeScreen *)

DRAWER_HIDDEN == -250

DRAWER_SHOWN == 0

menuOptions ==
    <<"Simple Map", "Current Location", "Marker", "Line", "Polygon", "Geometry">>

\* no Animated.timing started yet
NoAnimation == [none |-> TRUE]

\* drawerAnimation is the Animated.Value of the last render, bound to the
\* drawer's left; running is the timing started by the last toggleDrawer
InitialHome ==
    [mounted         |-> FALSE,
     styleJson       |-> JsNull,
     stylePending    |-> FALSE,
     isDrawerOpen    |-> FALSE,
     selectedOption  |-> menuOptions[1],
     drawerAnimation |-> DRAWER_HIDDEN,
     running         |-> NoAnimation]

\* every render constructs drawerAnimation anew; a timing still running keeps
\* driving the value of the render that started it
renderHome(h) ==
    [h EXCEPT !.drawerAnimation = DRAWER_HIDDEN,
              !.running = IF @ = NoAnimation THEN @ ELSE [@ EXCEPT !.bound = FALSE]]

RenderHome(h) ==
    [headerTitle |-> h.selectedOption,
     map         |-> Truthy(h.styleJson),
     left        |-> h.drawerAnimation,
     overlay     |-> h.isDrawerOpen]

\* toggleDrawer and the render its state change causes
toggleDrawer(h) ==
    LET toValue == IF h.isDrawerOpen THEN DRAWER_HIDDEN ELSE DRAWER_SHOWN
    IN  renderHome([h EXCEPT !.running = [toValue |-> toValue, frame |-> 0,
                                          bound |-> TRUE],
                             !.isDrawerOpen = ~h.isDrawerOpen])

selectOption(h, option) ==
    toggleDrawer([h EXCEPT !.selectedOption = option])

\* one frame of the running timing; its last frame stores toValue, which
\* reaches the drawer only if the animated value is still the rendered one
animationFrame(h, frames) ==
    LET r == [h.running EXCEPT !.frame = @ + 1]
    IN  [h EXCEPT !.running = r,
                  !.drawerAnimation =
                      IF r.bound /\ r.frame = frames THEN r.toValue ELSE @]

-----------------------------------------------------------------------------
(* State machine *)

Init ==
    /\ phase = [c \in Consumers |-> "idle"]
    /\ apiKey = [c \in Consumers |-> "keyA"]
    /\ hook = [c \in Consumers |-> InitialHook]
    /\ inflight = {}
    /\ issued = [c \in Consumers |-> {}]
    /\ requests = [c \in Consumers |-> 0]
    /\ geo = [op |-> "idle"]
    /\ marker = InitialMarker
    /\ inline = InitialInline
    /\ location = InitialLocation
    /\ home = InitialHome

RECURSIVE SumOver(_, _)
SumOver(f, S) ==
    IF S = {} THEN 0
    ELSE LET x == CHOOSE y \in S : TRUE IN f[x] + SumOver(f, S \ {x})

TotalRequests == SumOver(requests, Consumers)

\* the useEffect body: run loadStyle for the rendered apiKey
RunEffect(c, k) ==
    /\ TotalRequests < MaxRequests
    /\ requests' = [requests EXCEPT ![c] = @ + 1]
    /\ hook' = [hook EXCEPT ![c] = loadStyleBegin(@)]
    /\ inflight' = inflight \cup {[owner |-> c, seq |-> requests[c] + 1, key |-> k]}
    /\ issued' = [issued EXCEPT ![c] = @ \cup {k}]
    /\ UNCHANGED <<geo, marker, inline, location, home>>

\* first render of a consumer with apiKey k, then its effect
Mount(c, k) ==
    /\ phase[c] = "idle"
    /\ phase' = [phase EXCEPT ![c] = "mounted"]
    /\ apiKey' = [apiKey EXCEPT ![c] = k]
    /\ RunEffect(c, k)

\* re-render with a different apiKey: the [apiKey] dependency re-runs the effect
ChangeApiKey(c, k) ==
    /\ phase[c] = "mounted"
    /\ k # apiKey[c]
    /\ apiKey' = [apiKey EXCEPT ![c] = k]
    /\ RunEffect(c, k)
    /\ UNCHANGED phase

\* the effect returns no cleanup: pending loadStyle calls keep their setters
Unmount(c) ==
    /\ phase[c] = "mounted"
    /\ phase' = [phase EXCEPT ![c] = "unmounted"]
    /\ UNCHANGED <<apiKey, hook, inflight, issued, requests, geo, marker, inline, location, home>>

SettleWithRetry(req, outcome) ==
    /\ req \in inflight
    /\ inflight' =
          IF fetchBarikoiMapStyle(outcome).ok THEN inflight \ {req}
          ELSE (inflight \ {req}) \cup {[req EXCEPT !.seq = @ + MaxRequests]}
    /\ hook' = [hook EXCEPT ![SettersOf(req)] =
                   loadStyleSettled(@, fetchBarikoiMapStyle(outcome))]
    /\ UNCHANGED <<phase, apiKey, issued, requests, geo, marker, inline, location, home>>

\* the network answers request req and loadStyle resumes
Settle(req, outcome) ==
    /\ req \in inflight
    /\ inflight' = inflight \ {req}
    /\ hook' = [hook EXCEPT ![SettersOf(req)] =
                   loadStyleSettled(@, fetchBarikoiMapStyle(outcome))]
    /\ UNCHANGED <<phase, apiKey, issued, requests, geo, marker, inline, location, home>>

SomeSettle == \E req \in inflight : \E o \in Outcomes(req.key) : Settle(req, o)

\* one consumer: the screen mounts, may be re-rendered with another key, unmounts
Next ==
    \/ \E k \in Keys : Mount(1, k)
    \/ \E k \in Keys : ChangeApiKey(1, k)
    \/ Unmount(1)
    \/ SomeSettle

Spec == Init /\ [][Next]_vars

\* every fetch promise settles
FairSpec == Spec /\ WF_vars(SomeSettle)

\* two consumers mounted side by side
PairNext ==
    \/ \E c \in Consumers, k \in Keys : Mount(c, k)
    \/ \E c \in Consumers, k \in Keys : ChangeApiKey(c, k)
    \/ \E c \in Consumers : Unmount(c)
    \/ SomeSettle

PairSpec == Init /\ [][PairNext]_vars

-----------------------------------------------------------------------------
(* Calls of the geometry utilities *)

\* a coordinate given in whole degrees
Degrees(lng, lat) == <<FromInt(lng), FromInt(lat)>>

\* centers: the screen's center point, the two poles, a point on the equator
\* and a point a millionth of a degree from the north pole
Centers ==
    {centerPoint, Degrees(0, 90), Degrees(0, -90), Degrees(90, 0),
     <<FromInt(0), Lit(89999999, -6)>>}

\* radii in km: 0.3 (the screen's call), 1, 0 and -0.3
Radii == {Lit(3, -1), FromInt(1), NumZero, Lit(-3, -1)}

\* segment counts: explicit ones and the default of an omitted argument
SegmentCounts == (-1 .. MaxSegments) \cup {DefaultPoints}

\* the two numbers next to a finite number a whose significand is not a
\* power of two
Adjacent(a) ==
    {Fin(a.neg, BigAdd(a.m, <<1>>), a.e), Fin(a.neg, BigSub(a.m, <<1>>), a.e)}

\* latitudes and longitudes at the bounds, next to them, less than a
\* millionth and a millionth of a degree inside and outside them, in the
\* interior, NaN and the infinities
EdgeLats ==
    {Lit(n, -7) : n \in {202999990, 202999996, 203000000, 203000004, 203000010,
                         238237240,
                         267999990, 267999996, 268000000, 268000004, 268000010}}
    \cup Adjacent(Lit(203, -1)) \cup Adjacent(Lit(268, -1))
    \cup {NumNaN, NumInf(FALSE), NumInf(TRUE)}

EdgeLngs ==
    {Lit(n, -7) : n \in {879999990, 879999996, 880000000, 880000004, 880000010,
                         903666590,
                         927999990, 927999996, 928000000, 928000004, 928000010}}
    \cup Adjacent(Lit(880, -1)) \cup Adjacent(Lit(928, -1))
    \cup {NumNaN, NumInf(FALSE), NumInf(TRUE)}

\* end points of distances: places of the screens and docs, and antipodes
Places ==
    {centerPoint,
     <<Lit(90362159, -6), Lit(23821724, -6)>>,
     <<Lit(918317, -4), Lit(223569, -4)>>,
     Degrees(0, 0), Degrees(180, 0),
     Degrees(-90, 8), Degrees(90, -8),
     Degrees(0, 45), Degrees(180, -45)}

CallCreateCirclePolygon(center, radiusInKm, points) ==
    /\ geo.op = "idle"
    /\ geo' = [op |-> "createCirclePolygon", center |-> center,
               radiusInKm |-> radiusInKm, points |-> points,
               result |-> Num("createCirclePolygon", center, <<radiusInKm, points>>)]
    /\ UNCHANGED <<phase, apiKey, hook, inflight, issued, requests>>
    /\ UNCHANGED <<marker, inline, location, home>>

CallCreateCirclePoints(center, radiusInKm, points) ==
    /\ geo.op = "idle"
    /\ geo' = [op |-> "createCirclePoints", center |-> center,
               radiusInKm |-> radiusInKm, points |-> points,
               result |-> Num("createCirclePoints", center, <<radiusInKm, points>>)]
    /\ UNCHANGED <<phase, apiKey, hook, inflight, issued, requests>>
    /\ UNCHANGED <<marker, inline, location, home>>

CallIsWithinBangladeshBounds(coordinates) ==
    /\ geo.op = "idle"
    /\ geo' = [op |-> "isWithinBangladeshBounds", coordinates |-> coordinates,
               result |-> isWithinBangladeshBounds(coordinates)]
    /\ UNCHANGED <<phase, apiKey, hook, inflight, issued, requests>>
    /\ UNCHANGED <<marker, inline, location, home>>

CallCalculateDistance(coord1, coord2) ==
    /\ geo.op = "idle"
    /\ geo' = [op |-> "calculateDistance", coord1 |-> coord1, coord2 |-> coord2,
               result |-> Num("calculateDistance", coord1, coord2)]
    /\ UNCHANGED <<phase, apiKey, hook, inflight, issued, requests>>
    /\ UNCHANGED <<marker, inline, location, home>>

\* the caller has consumed the result
GeoReturn ==
    /\ geo.op # "idle"
    /\ geo' = [op |-> "idle"]
    /\ UNCHANGED <<phase, apiKey, hook, inflight, issued, requests>>
    /\ UNCHANGED <<marker, inline, location, home>>

GeoNext ==
    \/ \E lng \in EdgeLngs, lat \in EdgeLats :
          CallIsWithinBangladeshBounds(<<lng, lat>>)
    \/ \E c \in Centers, r \in Radii, n \in SegmentCounts :
          CallCreateCirclePolygon(c, r, n)
    \/ \E c \in Centers, r \in Radii, n \in SegmentCounts :
          CallCreateCirclePoints(c, r, n)
    \/ \E a \in Places, b \in Places : CallCalculateDistance(a, b)
    \/ GeoReturn

GeoSpec == Init /\ [][GeoNext]_vars

-----------------------------------------------------------------------------
(* Events of DraggableMarkerScreen *)

\* two places a press or a drag can report
PlaceA == <<Lit(90362159, -6), Lit(23821724, -6)>>

PlaceB == <<Lit(918317, -4), Lit(223569, -4)>>

Geometry(type, coordinates) == [type |-> type, coordinates |-> coordinates]

\* kinds of map press payloads: no geometry; a Point that is complete, lacks
\* its latitude, is empty, or lacks its longitude; a MultiPoint that is
\* empty, has two points, or has a first point without latitude; other types
PressKinds ==
    {"none", "point", "pointNoLat", "pointEmpty", "pointNoLng",
     "multiEmpty", "multi", "multiNoLat", "line", "polygon"}

PressPayload(kind) ==
    CASE kind = "none"       -> [geometry |-> JsUndefined]
      [] kind = "point"      -> [geometry |-> Geometry("Point", PlaceA)]
      [] kind = "pointNoLat" -> [geometry |-> Geometry("Point", <<PlaceA[1]>>)]
      [] kind = "pointEmpty" -> [geometry |-> Geometry("Point", <<>>)]
      [] kind = "pointNoLng" ->
             [geometry |-> Geometry("Point", <<JsUndefined, PlaceB[2]>>)]
      [] kind = "multiEmpty" -> [geometry |-> Geometry("MultiPoint", <<>>)]
      [] kind = "multi"      ->
             [geometry |-> Geometry("MultiPoint", <<PlaceB, PlaceA>>)]
      [] kind = "multiNoLat" ->
             [geometry |-> Geometry("MultiPoint", <<<<PlaceA[1]>>, PlaceB>>)]
      [] kind = "line"       ->
             [geometry |-> Geometry("LineString", <<PlaceA, PlaceB>>)]
      [] kind = "polygon"    ->
             [geometry |-> Geometry("Polygon", <<<<PlaceA, PlaceB, PlaceA>>>>)]

\* payloads of a marker drag: a complete Point, a Point without latitude
DragKinds == {"point", "pointNoLat"}

\* region-change events: without properties, or with a heading and a zoom
\* (each may be missing); the reported zoom is within [0, 22]
RegionFeatures ==
    {[properties |-> JsUndefined]}
    \cup {[properties |-> [heading |-> h, zoomLevel |-> z]] :
              h \in {JsUndefined, NumZero, NumNeg(NumZero), FromInt(45)},
              z \in {JsUndefined, FromInt(0), Lit(215, -1), FromInt(22)}}

\* answers to the style fetch of the screen's useBarikoiMapStyle(): a style
\* with and without a sprite, an HTTP error, a network failure, and a
\* rejection with an empty message
MarkerStyleOutcomes ==
    {[kind |-> "response", status |-> 200,
      body |-> [valid |-> TRUE, value |-> JsObj(BaseFields("keyA"))]],
     [kind |-> "response", status |-> 200,
      body |-> [valid |-> TRUE,
                value |-> JsObj(WithSprite("keyA", JsStr(<<"https://map.barikoi.com/sprite">>)))]],
     [kind |-> "response", status |-> 401,
      body |-> [valid |-> TRUE, value |-> ErrorBody]],
     [kind |-> "reject", err |-> JsError("TypeError", <<"Network request failed">>)],
     [kind |-> "reject", err |-> JsError("Error", <<>>)]}

\* first render and the effect of useBarikoiMapStyle: loadStyle starts
MarkerMount ==
    /\ ~marker.mounted
    /\ marker' = CommitMarker([marker EXCEPT !.mounted = TRUE,
                                             !.style = loadStyleBegin(@),
                                             !.stylePending = TRUE])
    /\ UNCHANGED <<phase, apiKey, hook, inflight, issued, requests>>
    /\ UNCHANGED <<geo, inline, location, home>>

\* the style fetch settles, loadStyle runs to its end and the screen
\* re-renders: the map view with its Camera, or the error view
MarkerStyleSettle(outcome) ==
    /\ marker.stylePending
    /\ marker' = CommitMarker(
                     [marker EXCEPT !.stylePending = FALSE,
                                    !.style = loadStyleSettled(
                                                  @, fetchBarikoiMapStyle(outcome))])
    /\ UNCHANGED <<phase, apiKey, hook, inflight, issued, requests>>
    /\ UNCHANGED <<geo, inline, location, home>>

\* a press on the rendered MapView
MapPress(payload) ==
    /\ MapRendered(marker)
    /\ marker' = handleMapPress(marker, payload)
    /\ UNCHANGED <<phase, apiKey, hook, inflight, issued, requests>>
    /\ UNCHANGED <<geo, inline, location, home>>

\* a drag of the PointAnnotation of the rendered MapView
MarkerDrag(payload) ==
    /\ MapRendered(marker)
    /\ marker' = handleDrag(marker, payload)
    /\ UNCHANGED <<phase, apiKey, hook, inflight, issued, requests>>
    /\ UNCHANGED <<geo, inline, location, home>>

\* a press of the zoom-in button; a disabled button calls no handler
ZoomInPress ==
    /\ MapRendered(marker)
    /\ marker.sent < MaxCommands
    /\ marker' = IF RenderControls(marker).zoomInDisabled THEN marker
                  ELSE handleZoomIn(marker)
    /\ UNCHANGED <<phase, apiKey, hook, inflight, issued, requests>>
    /\ UNCHANGED <<geo, inline, location, home>>

\* a press of the zoom-out button; a disabled button calls no handler
ZoomOutPress ==
    /\ MapRendered(marker)
    /\ marker.sent < MaxCommands
    /\ marker' = IF RenderControls(marker).zoomOutDisabled THEN marker
                  ELSE handleZoomOut(marker)
    /\ UNCHANGED <<phase, apiKey, hook, inflight, issued, requests>>
    /\ UNCHANGED <<geo, inline, location, home>>

\* a press of the compass control, which exists only while it is rendered
CompassPress ==
    /\ MapRendered(marker)
    /\ marker.sent < MaxCommands
    /\ RenderControls(marker).compass
    /\ marker' = handleCompassReset(marker)
    /\ UNCHANGED <<phase, apiKey, hook, inflight, issued, requests>>
    /\ UNCHANGED <<geo, inline, location, home>>

\* the rendered MapView reports a region change
RegionChange(feature) ==
    /\ MapRendered(marker)
    /\ marker' = handleRegionChange(marker, feature)
    /\ UNCHANGED <<phase, apiKey, hook, inflight, issued, requests>>
    /\ UNCHANGED <<geo, inline, location, home>>

\* a setTimeout callback of a zoom press: isManualZoomRef.current = false
ManualZoomTimeout ==
    /\ marker.timeouts > 0
    /\ marker' = [marker EXCEPT !.isManualZoomRef = FALSE, !.timeouts = @ - 1]
    /\ UNCHANGED <<phase, apiKey, hook, inflight, issued, requests>>
    /\ UNCHANGED <<geo, inline, location, home>>

MarkerNext ==
    \/ MarkerMount
    \/ \E o \in MarkerStyleOutcomes : MarkerStyleSettle(o)
    \/ \E kind \in PressKinds : MapPress(PressPayload(kind))
    \/ \E kind \in DragKinds : MarkerDrag(PressPayload(kind))
    \/ ZoomInPress
    \/ ZoomOutPress
    \/ CompassPress
    \/ \E feature \in RegionFeatures : RegionChange(feature)
    \/ ManualZoomTimeout

MarkerSpec == Init /\ [][MarkerNext]_vars

-----------------------------------------------------------------------------
(* Events of the screens that fetch the style inline *)

\* first render and the effect with the empty dependency list: one fetch
InlineMount(s) ==
    /\ ~inline[s].mounted
    /\ inline' = [inline EXCEPT ![s].mounted = TRUE, ![s].pending = TRUE]
    /\ UNCHANGED <<phase, apiKey, hook, inflight, issued, requests>>
    /\ UNCHANGED <<geo, marker, location, home>>

\* the network answers the fetch of screen s and the chain runs to its end
InlineSettle(s, outcome) ==
    /\ inline[s].pending
    /\ inline' = [inline EXCEPT
                     ![s] = inlineSettled(@, inlineStyleChain(outcome))]
    /\ UNCHANGED <<phase, apiKey, hook, inflight, issued, requests>>
    /\ UNCHANGED <<geo, marker, location, home>>

InlineSomeSettle ==
    \E s \in InlineScreens, o \in InlineOutcomes : InlineSettle(s, o)

InlineNext ==
    \/ \E s \in InlineScreens : InlineMount(s)
    \/ InlineSomeSettle

InlineSpec == Init /\ [][InlineNext]_vars

\* every fetch promise settles
InlineFairSpec == InlineSpec /\ WF_vars(InlineSomeSettle)

-----------------------------------------------------------------------------
(* Events of CurrentLocationScreen *)

Loc(latitude, longitude) ==
    JsObj([coords |-> [latitude |-> latitude, longitude |-> longitude]])

\* location updates the UserLocation layer can deliver
Locations ==
    {Loc(DHAKA[2], DHAKA[1]), Loc(PlaceB[2], PlaceB[1]),
     Loc(Lit(91234565, -7), Lit(-5, -7))}

PermissionStatuses == {"granted", "denied", "undetermined"}

\* answers to the style fetch of the screen, the same chain as the inline screens
LocationStyleOutcomes == InlineOutcomes

\* first render and the mount effect: the style fetch and the first request
\* (the fly-to effect of the first render finds no location and does nothing)
LocationMount ==
    /\ ~location.mounted
    /\ location' = requestLocationPermissionBegin(
                       [location EXCEPT !.mounted = TRUE, !.stylePending = TRUE])
    /\ UNCHANGED <<phase, apiKey, hook, inflight, issued, requests>>
    /\ UNCHANGED <<geo, marker, inline, home>>

LocationStyleSettle(outcome) ==
    /\ location.stylePending
    /\ location' =
          LET result == inlineStyleChain(outcome)
          IN  CommitLocation(
                  [location EXCEPT !.stylePending = FALSE,
                                   !.styleJson = IF result.ok THEN result.value ELSE @])
    /\ UNCHANGED <<phase, apiKey, hook, inflight, issued, requests>>
    /\ UNCHANGED <<geo, marker, inline, home>>

ServicesAnswered(enabled) ==
    /\ location.request = "awaitServices"
    /\ location' = servicesResolved(location, enabled)
    /\ UNCHANGED <<phase, apiKey, hook, inflight, issued, requests>>
    /\ UNCHANGED <<geo, marker, inline, home>>

PermissionAnswered(status) ==
    /\ location.request = "awaitPermission"
    /\ location' = permissionResolved(location, status)
    /\ UNCHANGED <<phase, apiKey, hook, inflight, issued, requests>>
    /\ UNCHANGED <<geo, marker, inline, home>>

\* hasServicesEnabledAsync or requestForegroundPermissionsAsync rejects
RequestThrows ==
    /\ location.request # "none"
    /\ location' = requestThrew(location)
    /\ UNCHANGED <<phase, apiKey, hook, inflight, issued, requests>>
    /\ UNCHANGED <<geo, marker, inline, home>>

\* 'Tap to retry' on the permission banner
RetryTap ==
    /\ location.mounted
    /\ RenderLocation(location).view = "screen"
    /\ RenderLocation(location).banner
    /\ location' = requestLocationPermissionBegin(location)
    /\ UNCHANGED <<phase, apiKey, hook, inflight, issued, requests>>
    /\ UNCHANGED <<geo, marker, inline, home>>

\* the UserLocation layer, when rendered, reports a location
LocationUpdate(loc) ==
    /\ location.mounted
    /\ RenderLocation(location).view = "screen"
    /\ RenderLocation(location).userLocationLayer
    /\ location' = [handleLocationUpdate(location, loc) EXCEPT
                        !.firstReceived = IF @ = JsNull THEN loc ELSE @]
    /\ UNCHANGED <<phase, apiKey, hook, inflight, issued, requests>>
    /\ UNCHANGED <<geo, marker, inline, home>>

\* React renders the screen again after a setter was called
LocationRender ==
    /\ location.renderPending
    /\ location' = CommitLocation(location)
    /\ UNCHANGED <<phase, apiKey, hook, inflight, issued, requests>>
    /\ UNCHANGED <<geo, marker, inline, home>>

\* React runs the effect scheduled by the last render
FlyToEffectRun ==
    /\ location.effectPending
    /\ location' = runEffects(location)
    /\ UNCHANGED <<phase, apiKey, hook, inflight, issued, requests>>
    /\ UNCHANGED <<geo, marker, inline, home>>

\* the user-location layer, when rendered, is pressed
LocationPress ==
    /\ location.mounted
    /\ RenderLocation(location).view = "screen"
    /\ RenderLocation(location).userLocationLayer
    /\ location' = handleLocationPress(location)
    /\ UNCHANGED <<phase, apiKey, hook, inflight, issued, requests>>
    /\ UNCHANGED <<geo, marker, inline, home>>

LocationAnswers ==
    \/ \E enabled \in BOOLEAN : ServicesAnswered(enabled)
    \/ \E status \in PermissionStatuses : PermissionAnswered(status)
    \/ RequestThrows

LocationNext ==
    \/ LocationMount
    \/ \E o \in LocationStyleOutcomes : LocationStyleSettle(o)
    \/ LocationAnswers
    \/ RetryTap
    \/ \E loc \in Locations : LocationUpdate(loc)
    \/ LocationRender
    \/ FlyToEffectRun
    \/ LocationPress

LocationSpec == Init /\ [][LocationNext]_vars

\* every awaited location call settles
LocationFairSpec == LocationSpec /\ WF_vars(LocationAnswers)

-----------------------------------------------------------------------------
(* Events of HomeScreen *)

HomeMount ==
    /\ ~home.mounted
    /\ home' = renderHome([home EXCEPT !.mounted = TRUE, !.stylePending = TRUE])
    /\ UNCHANGED <<phase, apiKey, hook, inflight, issued, requests>>
    /\ UNCHANGED <<geo, marker, inline, location>>

HomeStyleSettle(outcome) ==
    /\ home.stylePending
    /\ home' =
          LET result == inlineStyleChain(outcome)
          IN  IF result.ok
              THEN renderHome([home EXCEPT !.stylePending = FALSE,
                                           !.styleJson = result.value])
              ELSE [home EXCEPT !.stylePending = FALSE]
    /\ UNCHANGED <<phase, apiKey, hook, inflight, issued, requests>>
    /\ UNCHANGED <<geo, marker, inline, location>>

\* the menu button, the drawer's close button or the overlay is pressed
TogglePress ==
    /\ home.mounted
    /\ home' = toggleDrawer(home)
    /\ UNCHANGED <<phase, apiKey, hook, inflight, issued, requests>>
    /\ UNCHANGED <<geo, marker, inline, location>>

MenuPress(i) ==
    /\ home.mounted
    /\ home' = selectOption(home, menuOptions[i])
    /\ UNCHANGED <<phase, apiKey, hook, inflight, issued, requests>>
    /\ UNCHANGED <<geo, marker, inline, location>>

AnimationFrame ==
    /\ home.running # NoAnimation
    /\ home.running.frame < DrawerFrames
    /\ home' = animationFrame(home, DrawerFrames)
    /\ UNCHANGED <<phase, apiKey, hook, inflight, issued, requests>>
    /\ UNCHANGED <<geo, marker, inline, location>>

HomeNext ==
    \/ HomeMount
    \/ \E o \in InlineOutcomes : HomeStyleSettle(o)
    \/ TogglePress
    \/ \E i \in DOMAIN menuOptions : MenuPress(i)
    \/ AnimationFrame

HomeSpec == Init /\ [][HomeNext]_vars

-----------------------------------------------------------------------------
(* The three states a consumer reads from the hook *)

IsLoading(h) == h.loading

IsReady(h) == ~h.loading /\ h.styleJson # JsNull /\ h.error = JsNull

IsFailed(h) == ~h.loading /\ h.error # JsNull /\ h.styleJson = JsNull

\* request number n of consumer c is still awaiting its response
Awaiting(c, n) == \E r \in inflight : r.owner = c /\ r.seq = n

\* the step answers request req
Answers(req) == req \in inflight /\ inflight' = inflight \ {req}

SuccessStatus(status) == status \in 200 .. 299

-----------------------------------------------------------------------------
(* C1: every style request eventually leaves Loading.  Given that the fetch  *)
(* promise settles, each request of each consumer is eventually answered    *)
(* and leaves loading = false with styleJson set or error set.              *)
C1_EveryRequestLeavesLoading ==
    \A c \in Consumers : \A n \in 1 .. MaxRequests :
        Awaiting(c, n) ~>
            ( /\ ~Awaiting(c, n)
              /\ ~hook[c].loading
              /\ (hook[c].styleJson # JsNull \/ hook[c].error # JsNull) )

C1_Witness ==
    /\ requests[1] = 2
    /\ inflight = {}
    /\ IsReady(hook[1])

(* C2: a document handed on by a Ready load has no top-level sprite key,    *)
(* whatever the type of the sprite value in the response.                   *)
C2_ReadyDocumentHasNoSprite ==
    \A c \in Consumers :
        hook[c].styleJson.t = "obj" => "sprite" \notin DOMAIN hook[c].styleJson.f

(* C3: after a consumer unmounts, the outcome of its pending request is     *)
(* discarded: no setter changes the hook's state any more.                  *)
C3_NoSetStateAfterUnmount ==
    [][\A c \in Consumers : phase[c] = "unmounted" => hook'[c] = hook[c]]_vars

(* C4: a response of a superseded request (one that is not the consumer's   *)
(* most recent request) never changes styleJson, error or loading.          *)
C4_StaleResponseIgnored ==
    [][\A req \in inflight :
          (Answers(req) /\ req.seq # requests[req.owner])
              => hook'[req.owner] = hook[req.owner]]_vars

(* C5: a response whose status is not a success status makes the load       *)
(* Failed: loading false, styleJson untouched by the response, and the      *)
(* error message contains the decimal status code.                          *)
C5_HttpErrorFails ==
    [][\A req \in inflight : \A o \in Outcomes(req.key) :
          (o.kind = "response" /\ ~SuccessStatus(o.status) /\ Settle(req, o))
              => LET h == hook'[req.owner]
                 IN  /\ ~h.loading
                     /\ h.error.t = "str"
                     /\ Contains(h.error.s, ToDigits(o.status))
                     /\ h.styleJson = hook[req.owner].styleJson]_vars

C5_Witness ==
    /\ ~hook[1].loading
    /\ hook[1].styleJson = JsNull
    /\ hook[1].error.t = "str"
    /\ Contains(hook[1].error.s, <<"4", "0", "1">>)

(* C6: once the state has left Loading it does not change again unless a    *)
(* new request is started.                                                  *)
C6_TerminalStateIsStable ==
    [][\A c \in Consumers :
          (~hook[c].loading /\ requests'[c] = requests[c])
              => hook'[c] = hook[c]]_vars

(* C7: the triple (styleJson, loading, error) of a mounted consumer is      *)
(* always exactly one of Loading, Ready and Failed.                         *)
C7_TriState ==
    \A c \in Consumers :
        phase[c] = "mounted" =>
            \/ IsLoading(hook[c])
            \/ IsReady(hook[c])
            \/ IsFailed(hook[c])

(* C8: a screen renders the map only when the load is Ready, the loading    *)
(* indicator while Loading and the error view whenever it is Failed.        *)
C8_ScreenFollowsState ==
    \A c \in Consumers :
        phase[c] = "mounted" =>
            LET h == hook[c]
                r == Render(h)
            IN  /\ r.view = "map" => IsReady(h)
                /\ IsLoading(h) => r.view = "loading"
                /\ (~h.loading /\ h.error # JsNull) => r.view = "error"

(* C9: two consumers hold independent state: a stored document was served   *)
(* for a key its own consumer requested, and a response changes the state   *)
(* of the consumer that asked for it and of no other.                       *)
C9_ConsumersIndependent ==
    /\ [](\A c \in Consumers :
            hook[c].styleJson.t = "obj" =>
                \E k \in issued[c] :
                    hook[c].styleJson.f["sources"] = JsStr(<<"tiles?key=", k>>))
    /\ [][\A req \in inflight :
            Answers(req) =>
                \A c \in Consumers \ {req.owner} : hook'[c] = hook[c]]_vars

C9_Witness ==
    /\ issued[1] = {"keyA"}
    /\ issued[2] = {"keyB"}
    /\ inflight = {}
    /\ IsReady(hook[1])
    /\ hook[1].styleJson = JsObj(BaseFields("keyA"))
    /\ IsFailed(hook[2])

(* C10: a success status with a body that is not valid JSON makes the load  *)
(* Failed with a non-empty message; styleJson is not set from the response. *)
C10_MalformedJsonFails ==
    [][\A req \in inflight : \A o \in Outcomes(req.key) :
          ( /\ o.kind = "response"
            /\ SuccessStatus(o.status)
            /\ ~o.body.valid
            /\ Settle(req, o) )
              => LET h == hook'[req.owner]
                 IN  /\ ~h.loading
                     /\ h.error.t = "str"
                     /\ Len(h.error.s) > 0
                     /\ h.styleJson = hook[req.owner].styleJson]_vars

C10_Witness ==
    /\ ~hook[1].loading
    /\ hook[1].styleJson = JsNull
    /\ hook[1].error = JsStr(<<"JSON Parse error: Unexpected token">>)

(* C11: each style load invocation issues exactly one network request: an   *)
(* effect run adds one pending request, a response (failed or not) adds     *)
(* none, an effect runs only on mount or on an apiKey change, and a hook    *)
(* whose apiKey never changed has issued exactly one request.               *)
C11_OneRequestPerInvocation ==
    /\ [](\A c \in Consumers :
            (phase[c] # "idle" /\ Cardinality(issued[c]) = 1) => requests[c] = 1)
    /\ [][\A c \in Consumers :
            LET new == {r \in inflight' \ inflight : r.owner = c}
            IN  /\ requests'[c] = requests[c] + 1 => Cardinality(new) = 1
                /\ requests'[c] = requests[c] => new = {}
                /\ requests'[c] # requests[c] =>
                       (phase[c] = "idle" \/ apiKey'[c] # apiKey[c])]_vars

C11_Witness ==
    /\ phase[1] = "mounted"
    /\ requests[1] = 1
    /\ inflight = {}
    /\ IsFailed(hook[1])

(* C12: sanitizing changes nothing but the sprite key: every other top-level *)
(* key of the parsed response is in the stored document with the same       *)
(* value, no key is added, and a document without sprite is stored as is.   *)
C12_OnlySpriteRemoved ==
    [][\A req \in inflight : \A o \in Outcomes(req.key) :
          ( /\ o.kind = "response"
            /\ SuccessStatus(o.status)
            /\ o.body.valid
            /\ o.body.value.t = "obj"
            /\ Settle(req, o) )
              => LET d == o.body.value
                     s == hook'[req.owner].styleJson
                 IN  /\ s.t = "obj"
                     /\ DOMAIN s.f \subseteq DOMAIN d.f
                     /\ \A key \in (DOMAIN d.f) \ {"sprite"} :
                            key \in DOMAIN s.f /\ s.f[key] = d.f[key]
                     /\ "sprite" \notin DOMAIN d.f => s = d]_vars

C12_Witness ==
    /\ IsReady(hook[1])
    /\ requests[1] = 1
    /\ hook[1].styleJson = JsObj(BaseFields(apiKey[1]))

\* the network outcome makes fetchBarikoiMapStyle reject
FailingOutcome(o) ==
    \/ o.kind = "reject"
    \/ /\ o.kind = "response"
       /\ \/ ~SuccessStatus(o.status)
          \/ ~o.body.valid
          \/ o.body.value.t = "null"

GenericMessage == JsStr(<<"Failed to load map style">>)

(* C13: the Failed message is one string: 'HTTP error! status: <code>' for  *)
(* a non-success status, the thrown Error's own message when transport or   *)
(* parsing throws an Error, and the generic 'Failed to load map style'      *)
(* exactly when the thrown value is not an Error.                           *)
C13_FailureMessages ==
    [][\A req \in inflight : \A o \in Outcomes(req.key) :
          (FailingOutcome(o) /\ Settle(req, o))
              => LET e == hook'[req.owner].error
                     notAnError == o.kind = "reject" /\ o.err.t # "error"
                 IN  /\ e.t = "str"
                     /\ (o.kind = "response" /\ ~SuccessStatus(o.status)) =>
                            e.s = <<"HTTP error! status: ">> \o ToDigits(o.status)
                     /\ (o.kind = "reject" /\ o.err.t = "error") =>
                            e = o.err.message
                     /\ ( /\ o.kind = "response"
                          /\ SuccessStatus(o.status)
                          /\ ~o.body.valid ) =>
                            e.s = <<"JSON Parse error: Unexpected token">>
                     /\ (e = GenericMessage) <=> notAnError]_vars

C13_Witness ==
    /\ phase[1] = "mounted"
    /\ inflight = {}
    /\ ~hook[1].loading
    /\ hook[1].error = GenericMessage

-----------------------------------------------------------------------------
(* Claims about the geometry utilities *)

\* a circle generator has returned
CircleReturned ==
    /\ geo.op \in {"createCirclePolygon", "createCirclePoints"}
    /\ geo.result.kind = "return"

(* C14: for every center, radius and segment count, the ring a circle       *)
(* generator returns has length segments + 1 and its last element is        *)
(* identical to its first element.                                          *)
C14_RingClosed ==
    CircleReturned =>
        LET ring == geo.result.ring
        IN  /\ Len(ring) = geo.points + 1
            /\ ring[Len(ring)] = ring[1]

\* a circle generator has been called
CircleCalled == geo.op \in {"createCirclePolygon", "createCirclePoints"}

\* the call failed with an InvalidArgument error
FailedInvalidArgument ==
    geo.result.kind = "throw" /\ geo.result.error = "InvalidArgument"

\* the center is a pole: latitude exactly +90 or -90
PoleCenter == geo.center[2] \in {FromInt(90), FromInt(-90)}

(* C15: a circle generator fails with InvalidArgument for every segment     *)
(* count below 3 and succeeds for 3 segments (valid radius and center), so  *)
(* it never returns a ring with fewer than 4 points.                        *)
C15_SegmentsValidated ==
    CircleCalled =>
        /\ geo.points < 3 => FailedInvalidArgument
        /\ ( /\ geo.points = 3
             /\ NumLt(NumZero, geo.radiusInKm)
             /\ ~PoleCenter ) => geo.result.kind = "return"
        /\ geo.result.kind = "return" => Len(geo.result.ring) >= 4

(* C16: a circle generator fails with InvalidArgument for every radius that *)
(* is zero or negative, and returns no ring in that case.                   *)
C16_RadiusValidated ==
    (CircleCalled /\ NumLe(geo.radiusInKm, NumZero)) =>
        /\ FailedInvalidArgument
        /\ geo.result.kind # "return"

\* p is a [lng, lat] pair of finite numbers within -180..180 and -90..90
ValidCoordinate(p) ==
    /\ p # JsUndefined
    /\ IsFinite(p[1]) /\ IsFinite(p[2])
    /\ NumLe(FromInt(-180), p[1]) /\ NumLe(p[1], FromInt(180))
    /\ NumLe(FromInt(-90), p[2]) /\ NumLe(p[2], FromInt(90))

(* C17: a circle generator fails with InvalidArgument when the center       *)
(* latitude is exactly +90 or -90 degrees, and for such a center it never   *)
(* returns a ring that holds an infinite, NaN or out-of-range coordinate.   *)
C17_PoleRejected ==
    (CircleCalled /\ PoleCenter) =>
        /\ FailedInvalidArgument
        /\ geo.result.kind = "return" =>
               \A i \in 1 .. Len(geo.result.ring) :
                   ValidCoordinate(geo.result.ring[i])

\* 20.3 <= lat <= 26.8 and 88.0 <= lng <= 92.8, on the numbers as they are:
\* neither component is NaN, below its lower bound or above its upper bound
InsideBangladeshBox(p) ==
    /\ p[1] # NumNaN /\ p[2] # NumNaN
    /\ ~NumLt(p[2], Lit(203, -1)) /\ ~NumLt(Lit(268, -1), p[2])
    /\ ~NumLt(p[1], Lit(880, -1)) /\ ~NumLt(Lit(928, -1), p[1])

(* C18: for every coordinate [lng, lat], isWithinBangladeshBounds returns   *)
(* true exactly when 20.3 <= lat <= 26.8 and 88.0 <= lng <= 92.8, so points *)
(* on the north, south, east or west bound are inside; the result depends   *)
(* on the argument alone, whatever calls came before.                       *)
C18_InclusiveBounds ==
    geo.op = "isWithinBangladeshBounds" =>
        (geo.result <=> InsideBangladeshBox(geo.coordinates))

C18_Witness ==
    /\ geo.op = "isWithinBangladeshBounds"
    /\ geo.coordinates = <<Lit(928, -1), Lit(268, -1)>>
    /\ geo.result = TRUE

\* haversine distance in km from the center of the call to ring point i
DistanceFromCenter(i) == calculateDistance(geo.center, geo.result.ring[i])

(* C19: for center [90.366659, 23.823724], radius 0.3 km and 64 segments,   *)
(* every point of the generated ring lies at a haversine distance from the  *)
(* center between 0.285 km and 0.315 km.                                    *)
C19_RingWithinTolerance ==
    ( /\ CircleReturned
      /\ geo.center = centerPoint
      /\ geo.radiusInKm = Lit(3, -1)
      /\ geo.points = DefaultPoints ) =>
        \A i \in 1 .. Len(geo.result.ring) :
            /\ NumLe(Lit(285, -3), DistanceFromCenter(i))
            /\ NumLe(DistanceFromCenter(i), Lit(315, -3))

\* |x - y| <= tol; false when x or y is NaN
WithinTolerance(x, y, tol) ==
    /\ NumLe(NumSub(x, y), tol)
    /\ NumLe(NumSub(y, x), tol)

(* C20: calculateDistance is symmetric: for all coordinate pairs (a, b),    *)
(* calculateDistance(a, b) equals calculateDistance(b, a) within 1e-9 km.   *)
C20_DistanceSymmetric ==
    geo.op = "calculateDistance" =>
        WithinTolerance(geo.result,
                        calculateDistance(geo.coord2, geo.coord1),
                        Lit(1, -9))

-----------------------------------------------------------------------------
(* Claims about DraggableMarkerScreen *)

\* where a press of the given kind must put a marker that is at current
PressedCoordinate(kind, current) ==
    CASE kind = "point"      -> PlaceA
      [] kind = "multi"      -> PlaceB
      [] kind = "pointNoLat" -> <<PlaceA[1], current[2]>>
      [] kind = "multiNoLat" -> <<PlaceA[1], current[2]>>
      [] kind = "pointNoLng" -> <<current[1], PlaceB[2]>>
      [] OTHER               -> current

(* C21: a map press moves the marker to the pressed coordinate when the     *)
(* payload geometry is a Point, or to the first point of a non-empty        *)
(* MultiPoint; every other payload (no geometry, another geometry type, an  *)
(* empty MultiPoint) leaves markerCoordinate unchanged; a longitude or      *)
(* latitude missing from the payload falls back to the marker's current one. *)
C21_MapPressMovesMarker ==
    [][\A kind \in PressKinds :
          MapPress(PressPayload(kind)) =>
              marker'.markerCoordinate =
                  PressedCoordinate(kind, marker.markerCoordinate)]_vars

C21_Witness == marker.markerCoordinate = <<PlaceA[1], PlaceB[2]>>

\* the region-change event carries a non-zero heading
HasHeading(feature) ==
    /\ feature.properties # JsUndefined
    /\ feature.properties.heading \notin {JsUndefined, NumZero, NumNeg(NumZero)}

\* the camera command of the compass control
CompassCommand ==
    [heading |-> NumZero, animationDuration |-> 500, animationMode |-> "easeTo"]

(* C22: the compass reset control is rendered exactly when mapRotation is   *)
(* not 0; pressing it with the camera mounted sends a heading-0 camera      *)
(* command and sets mapRotation to 0, so the control is hidden; mapRotation *)
(* leaves 0 only by a region-change event that reports a non-zero heading;  *)
(* a region-change event without a heading sets mapRotation to 0.           *)
C22_CompassReset ==
    /\ [](RenderControls(marker).compass <=> marker.mapRotation # FromInt(0))
    /\ [][(CompassPress /\ marker.cameraRef # JsNull) =>
              /\ marker'.sent = marker.sent + 1
              /\ marker'.lastCommand = CompassCommand
              /\ marker'.mapRotation = FromInt(0)
              /\ ~RenderControls(marker').compass]_vars
    /\ [][(marker.mapRotation = FromInt(0) /\ marker'.mapRotation # FromInt(0)) =>
              \E feature \in RegionFeatures :
                  HasHeading(feature) /\ RegionChange(feature)]_vars
    /\ [][\A feature \in RegionFeatures :
              (RegionChange(feature) /\ ~HasHeading(feature)) =>
                  marker'.mapRotation = FromInt(0)]_vars

C22_Witness ==
    /\ marker.lastCommand = CompassCommand
    /\ marker.mapRotation = FromInt(0)
    /\ ~RenderControls(marker).compass
    /\ marker.sent = 1

\* the screen in state m, had its camera not been mounted
WithoutCamera(m) == [m EXCEPT !.cameraRef = JsNull]

(* C23: after any sequence of zoom-in presses, zoom-out presses and         *)
(* region-change events that report a zoom within [0, 22], zoomLevel stays  *)
(* within [0, 22]; a zoom-in press at zoomLevel >= 22 or a zoom-out press   *)
(* at zoomLevel <= 0 changes no state and sends no camera command, and so   *)
(* does, in every state the screen reaches, either zoom handler called with *)
(* no camera mounted.                                                       *)
C23_ZoomWithinLimits ==
    /\ [](/\ NumLe(FromInt(0), marker.zoomLevel)
          /\ NumLe(marker.zoomLevel, FromInt(22)))
    /\ [][(ZoomInPress /\ NumLe(FromInt(22), marker.zoomLevel))
              => UNCHANGED marker]_vars
    /\ [][(ZoomOutPress /\ NumLe(marker.zoomLevel, FromInt(0)))
              => UNCHANGED marker]_vars
    /\ [](/\ handleZoomIn(WithoutCamera(marker)) = WithoutCamera(marker)
          /\ handleZoomOut(WithoutCamera(marker)) = WithoutCamera(marker))

C23_Witness ==
    /\ marker.zoomLevel = FromInt(22)
    /\ marker.lastCommand = [zoomLevel |-> FromInt(22), animationDuration |-> 300,
                             animationMode |-> "easeTo"]
    /\ marker.isManualZoomRef

-----------------------------------------------------------------------------
(* Claims about the screens that fetch the style inline *)

\* the screen shows a terminal state: the map, or a failure view
InlineTerminal(s) == RenderInline(inline[s]).view \in {"map", "error"}

(* C24: in the screens that fetch the style inline, every style load        *)
(* eventually reaches a terminal state visible to the user: the map, or a   *)
(* Failed state after a failed fetch or a failed parse, rather than staying *)
(* on 'Loading Map...' with styleJson = null forever.                       *)
C24_InlineLoadTerminates ==
    \A s \in InlineScreens : inline[s].pending ~> InlineTerminal(s)

(* C25: in the screens that fetch the style inline, a non-success HTTP      *)
(* response is a failure: its parsed body is never stored as styleJson and  *)
(* never passed to MapView as mapStyle.                                     *)
C25_InlineHttpErrorNotStored ==
    [][\A s \in InlineScreens, o \in InlineOutcomes :
          ( /\ o.kind = "response"
            /\ ~SuccessStatus(o.status)
            /\ InlineSettle(s, o) )
              => /\ inline'[s].styleJson = JsNull
                 /\ RenderInline(inline'[s]).view # "map"]_vars

-----------------------------------------------------------------------------
(* Claims about CurrentLocationScreen *)

\* the fly-to camera command for a location, as the effect spells it out
FlyToOf(loc) ==
    [centerCoordinate |-> <<loc.f.coords.longitude, loc.f.coords.latitude>>,
     zoomLevel |-> 16,
     animationDuration |-> 2000,
     animationMode |-> "flyTo"]

\* C26: the camera flies to the user at most once per mount: the fly-to
\* camera command is issued for the first location update received while
\* the camera is mounted, hasFlownToLocation then becomes true and never
\* reverts, and no later location update issues another camera command
C26_FlyToOnce ==
    [][/\ location'.sent <= 1
       /\ location.hasFlownToLocation => location'.hasFlownToLocation
       /\ location'.sent # location.sent =>
              /\ Truthy(location.cameraRef)
              /\ location.firstReceived # JsNull
              /\ location'.lastCommand = FlyToOf(location.firstReceived)
              /\ location'.hasFlownToLocation]_vars

\* C27: hasLocationPermission becomes true only when the location services
\* are enabled and the permission status is 'granted', it never reverts to
\* false, and userLocation is non-null only where hasLocationPermission is true
C27_PermissionGrantedOnly ==
    [][/\ (~location.hasLocationPermission /\ location'.hasLocationPermission)
            => /\ location'.serviceEnabled = JsBool(TRUE)
               /\ location'.status = JsStr(<<"granted">>)
       /\ location.hasLocationPermission => location'.hasLocationPermission
       /\ location'.userLocation # JsNull => location'.hasLocationPermission]_vars

\* a location is shown after services were found enabled and permission granted
C27_Witness ==
    /\ location.hasLocationPermission
    /\ location.serviceEnabled = JsBool(TRUE)
    /\ location.status = JsStr(<<"granted">>)
    /\ location.userLocation # JsNull

\* a run of requestLocationPermission ends in this step
RequestEnds == location.request # "none" /\ location'.request = "none"

\* C28: every run of requestLocationPermission (services disabled, granted,
\* denied, or a call that throws) ends with permissionLoading = false, so the
\* screen leaves 'Requesting Location Permission...'; afterwards the retry
\* banner is rendered exactly when hasLocationPermission is false, and
\* tapping it starts a new request
C28_RequestAlwaysEnds ==
    /\ [][/\ RequestEnds =>
               /\ ~location'.permissionLoading
               /\ RenderLocation(location').view = "screen"
               /\ RenderLocation(location').banner = ~location'.hasLocationPermission
          /\ RetryTap =>
               /\ location'.request = "awaitServices"
               /\ location'.permissionLoading]_vars
    /\ [](location.mounted /\ location.request = "none" => ~location.permissionLoading)
    /\ (location.request # "none") ~> (location.request = "none")

\* a request that threw has ended and the banner offers the retry
C28_Witness ==
    /\ location.mounted
    /\ location.request = "none"
    /\ location.alert # NoAlert
    /\ location.alert.title = "Error"
    /\ ~location.permissionLoading
    /\ RenderLocation(location).banner

-----------------------------------------------------------------------------
(* Claims about HomeScreen *)

\* the timing started by the last toggleDrawer has played its last frame
ToggleCompleted ==
    home.running # NoAnimation /\ home.running.frame = DrawerFrames

\* C29: each toggleDrawer flips isDrawerOpen, the overlay is rendered exactly
\* when isDrawerOpen, once a toggle has completed and the screen has
\* re-rendered the drawer's left is 0 if isDrawerOpen and -250 otherwise, and
\* selecting a menu option while the drawer is open sets selectedOption to
\* its title and closes the drawer
C29_DrawerFollowsState ==
    /\ [][/\ TogglePress => home'.isDrawerOpen = ~home.isDrawerOpen
          /\ \A i \in DOMAIN menuOptions :
               (home.isDrawerOpen /\ MenuPress(i)) =>
                   /\ home'.selectedOption = menuOptions[i]
                   /\ ~home'.isDrawerOpen]_vars
    /\ [](RenderHome(home).overlay = home.isDrawerOpen)
    /\ [](ToggleCompleted =>
             RenderHome(home).left =
                 IF home.isDrawerOpen THEN DRAWER_SHOWN ELSE DRAWER_HIDDEN)

====
